---- MODULE Spec2Model ----
(***************************************************************************)
(* Audio-reactive visualizers of darkfloor-art-frontend:                   *)
(*   ChemicalOrbitalsRenderer  (energy-level state machine, electron pool) *)
(*   KaleidoscopeRenderer      (segment count, particle pool, frame order) *)
(* and the DynamicTitle component that titles the document.                *)
(* Both consume a frequency buffer (bytes 0..255) and a length per render()*)
(* call, and derive a quality scale from the canvas area at construction   *)
(* and on resize().                                                        *)
(*                                                                         *)
(* JavaScript numbers are modelled as exact values: a rational n/d in      *)
(* lowest terms, NaN, or Infinity.  Division by zero therefore yields NaN  *)
(* (0/0) or Infinity (x/0, x > 0) exactly as in the source, never an error.*)
(* Electron and particle coordinates are continuous and random; a pool is  *)
(* represented by its length, and the particle pool also by one of its     *)
(* elements (forEach applies the same update to every element, and no      *)
(* element reads another).  A particle's position is held in polar form:   *)
(* its angle in turns (1 turn = 2*pi) and its radius.                      *)
(***************************************************************************)
EXTENDS Integers, Sequences, FiniteSets, TLC

VARIABLES
    orbitals,          \* the fields of one ChemicalOrbitalsRenderer instance
    kaleido,           \* the fields of one KaleidoscopeRenderer instance
    devicePixelRatio,  \* window.devicePixelRatio as last read (0: absent/falsy)
    feed,              \* the (dataArray, bufferLength) of the render() calls
    metrics,           \* locals of the last ChemicalOrbitalsRenderer.render()
    kmetrics,          \* locals of the last KaleidoscopeRenderer.render()
    band,              \* the (startRatio, endRatio) under evaluation
    bandResult,        \* the value returned by getFrequencyBandIntensity
    lastCall,          \* the operation that acted last
    particle,          \* one element of KaleidoscopeRenderer.particles
    drawLog,           \* the canvas calls of the last KaleidoscopeRenderer.render()
    orbitalLog,        \* the methods the last ChemicalOrbitalsRenderer.render() called on ctx
    thrown,            \* the error the last call raised ("none" if it returned)
    repeated,          \* the last call was a resize repeating the call before it
    page,              \* the DynamicTitle component and the document it titles
    flow,              \* FlowFieldBackground on the shared audio connection
    weak               \* FlowFieldBackground on the WeakMap of connections

vars == <<orbitals, kaleido, devicePixelRatio, feed, metrics, kmetrics,
          band, bandResult, lastCall, particle, drawLog, orbitalLog, thrown,
          repeated, page, flow, weak>>

----------------------------------------------------------------------------
(* JavaScript number values                                                *)

RECURSIVE GCD(_, _)
GCD(a, b) == IF b = 0 THEN a ELSE GCD(b, a % b)

Abs(i) == IF i < 0 THEN -i ELSE i

\* n/d in lowest terms, d > 0
Num(n, d) ==
    LET g == GCD(Abs(n), Abs(d))
        s == IF d < 0 THEN -1 ELSE 1
    IN  [k |-> "num", n |-> s * (n \div g), d |-> s * (d \div g)]

Whole(i) == [k |-> "num", n |-> i, d |-> 1]
NaN == [k |-> "nan", n |-> 0, d |-> 1]
Infinity == [k |-> "inf", n |-> 1, d |-> 1]

IsNum(x) == x.k = "num"
IsNaN(x) == x.k = "nan"

\* x + y for values that are NaN, +Infinity or finite
Add(x, y) ==
    IF IsNaN(x) \/ IsNaN(y) THEN NaN
    ELSE IF ~IsNum(x) \/ ~IsNum(y) THEN Infinity
    ELSE Num(x.n * y.d + y.n * x.d, x.d * y.d)

\* x * y for non-negative values
Mul(x, y) ==
    IF IsNaN(x) \/ IsNaN(y) THEN NaN
    ELSE IF ~IsNum(x) THEN (IF y.k = "num" /\ y.n = 0 THEN NaN ELSE Infinity)
    ELSE IF ~IsNum(y) THEN (IF x.n = 0 THEN NaN ELSE Infinity)
    ELSE Num(x.n * y.n, x.d * y.d)

\* x / y for non-negative values: 0/0 is NaN, x/0 is Infinity
Div(x, y) ==
    IF IsNaN(x) \/ IsNaN(y) THEN NaN
    ELSE IF ~IsNum(x) THEN (IF IsNum(y) THEN Infinity ELSE NaN)
    ELSE IF ~IsNum(y) THEN Whole(0)
    ELSE IF y.n = 0 THEN (IF x.n = 0 THEN NaN ELSE Infinity)
    ELSE Num(x.n * y.d, x.d * y.n)

\* x >= y; every comparison with NaN is false
Geq(x, y) ==
    IF IsNaN(x) \/ IsNaN(y) THEN FALSE
    ELSE IF ~IsNum(x) THEN TRUE
    ELSE IF ~IsNum(y) THEN FALSE
    ELSE x.n * y.d >= y.n * x.d

\* x < y and x > y; every comparison with NaN is false
Lt(x, y) == ~IsNaN(x) /\ ~IsNaN(y) /\ ~Geq(x, y)
Gt(x, y) == Lt(y, x)

\* Math.min(x, y)
Min(x, y) ==
    IF IsNaN(x) \/ IsNaN(y) THEN NaN ELSE IF Geq(x, y) THEN y ELSE x

\* Math.floor(x) and (x | 0) of a finite non-negative value, as an integer
Floor(x) == x.n \div x.d

\* the values in the closed interval [0, 1]
InUnit(x) == IsNum(x) /\ x.n >= 0 /\ x.n <= x.d

----------------------------------------------------------------------------
(* Frequency buffers                                                       *)

\* dataArray[i] ?? 0 : reading past the end of the array gives 0
At(dataArray, i) == IF i < Len(dataArray) THEN dataArray[i + 1] ELSE 0

\* let sum = 0; for (i = startIndex; i < endIndex; i++) sum += dataArray[i] ?? 0
\* (the same sum, associated pairwise so that 1024 bins nest 10 deep)
RECURSIVE SumRange(_, _, _)
SumRange(dataArray, startIndex, endIndex) ==
    IF startIndex >= endIndex THEN 0
    ELSE IF endIndex = startIndex + 1 THEN At(dataArray, startIndex)
    ELSE LET half == (startIndex + endIndex) \div 2
         IN  SumRange(dataArray, startIndex, half) + SumRange(dataArray, half, endIndex)

INV_255 == Num(1, 255)

\* the fixed band ratios of the render() call sites
BassBand == <<Whole(0), Num(15, 100)>>
MidBand == <<Num(3, 10), Num(6, 10)>>
TrebleBand == <<Num(7, 10), Whole(1)>>

\* variant: the sum loop runs to endIndex inclusive (i <= endIndex)
getFrequencyBandIntensityInclusive(dataArray, bufferLength, startRatio, endRatio) ==
    LET startIndex == Floor(Mul(Whole(bufferLength), startRatio))
        endIndex == Floor(Mul(Whole(bufferLength), endRatio))
        count == endIndex - startIndex
    IN  IF count <= 0 THEN Whole(0)
        ELSE Mul(Div(Whole(SumRange(dataArray, startIndex, endIndex + 1)),
                     Whole(count)),
                 INV_255)

\* ChemicalOrbitalsRenderer.getFrequencyBandIntensity
getFrequencyBandIntensity(dataArray, bufferLength, startRatio, endRatio) ==
    LET startIndex == Floor(Mul(Whole(bufferLength), startRatio))
        endIndex == Floor(Mul(Whole(bufferLength), endRatio))
        count == endIndex - startIndex
    IN  IF count <= 0 THEN Whole(0)
        ELSE Mul(Div(Whole(SumRange(dataArray, startIndex, endIndex)), Whole(count)),
                 INV_255)

\* KaleidoscopeRenderer.getFrequencyBandIntensity (no guard on the count)
kGetFrequencyBandIntensity(dataArray, bufferLength, startRatio, endRatio) ==
    LET startIndex == Floor(Mul(Whole(bufferLength), startRatio))
        endIndex == Floor(Mul(Whole(bufferLength), endRatio))
    IN  Div(Div(Whole(SumRange(dataArray, startIndex, endIndex)),
                Whole(endIndex - startIndex)),
            Whole(255))

----------------------------------------------------------------------------
(* Quality scaling, construction and resize                                *)

threshold == 2073600
MAX_ENERGY_LEVEL == 6
energyLevelDuration == 300

\* window.devicePixelRatio || 1
DevicePixelRatioOr1(dpr) == IF IsNum(dpr) /\ dpr.n = 0 THEN Whole(1) ELSE dpr

\* ChemicalOrbitalsRenderer constructor: qualityScale
QualityScale(width, height) ==
    LET screenArea == width * height
    IN  IF screenArea > threshold
        THEN Min(Num(7, 10), Div(Whole(threshold), Whole(screenArea)))
        ELSE Whole(1)

\* ChemicalOrbitalsRenderer constructor: pixelRatio
PixelRatio(dpr, qualityScale) ==
    LET d == DevicePixelRatioOr1(dpr)
    IN  Mul(IF Lt(d, Whole(2)) THEN d ELSE Whole(2), qualityScale)

\* variant: the conditional of resize picks the larger of ratio and 0.7
ResizeQualityScaleLarger(width, height) ==
    LET screenArea == width * height
        ratio == Div(Whole(threshold), Whole(screenArea))
    IN  IF screenArea > threshold
        THEN (IF Gt(ratio, Num(7, 10)) THEN ratio ELSE Num(7, 10))
        ELSE Whole(1)

\* ChemicalOrbitalsRenderer.resize: qualityScale
ResizeQualityScale(width, height) ==
    LET screenArea == width * height
        ratio == Div(Whole(threshold), Whole(screenArea))
    IN  IF screenArea > threshold
        THEN (IF Lt(ratio, Num(7, 10)) THEN ratio ELSE Num(7, 10))
        ELSE Whole(1)

\* variant: resize() does not cap the device pixel ratio at 2
ResizePixelRatioUncapped(dpr, qualityScale) ==
    Mul(DevicePixelRatioOr1(dpr), qualityScale)

\* ChemicalOrbitalsRenderer.resize: pixelRatio
ResizePixelRatio(dpr, qualityScale) ==
    Mul(Min(DevicePixelRatioOr1(dpr), Whole(2)), qualityScale)

\* KaleidoscopeRenderer constructor and resize: qualityScale
kQualityScale(width, height) ==
    LET screenArea == width * height
    IN  IF screenArea > 1920 * 1080
        THEN Min(Num(7, 10), Div(Whole(1920 * 1080), Whole(screenArea)))
        ELSE Whole(1)

\* KaleidoscopeRenderer constructor and resize: pixelRatio
kPixelRatio(dpr, qualityScale) ==
    Mul(Min(DevicePixelRatioOr1(dpr), Whole(2)), qualityScale)

MinInt(a, b) == IF a < b THEN a ELSE b

\* one element of the pool, for the draw u of Math.random() that sets its
\* speed.  Its angle and phase start at random reals and are only ever added
\* to: each is held as the amount the last update added to it.
NewElectron(u) ==
    [speed |-> Add(Num(1, 100), Mul(u, Num(2, 100))),
     angleStep |-> Whole(0), phaseStep |-> Whole(0)]

\* ChemicalOrbitalsRenderer.initializeElectrons: the pool is emptied, then filled
initializeElectrons(o, u) ==
    [o EXCEPT !.electrons = Floor(Mul(Whole(50), o.qualityScale)),
              !.electron = NewElectron(u)]

\* variant: baseParticleCount is 50
initializeParticlesHalved(k) ==
    [k EXCEPT !.particles = @ + Floor(Mul(Whole(50), k.qualityScale))]

\* KaleidoscopeRenderer.initializeParticles: pushes onto the pool it finds
initializeParticles(k) ==
    [k EXCEPT !.particles = @ + Floor(Mul(Whole(100), k.qualityScale))]

\* new ChemicalOrbitalsRenderer(canvas)
NewOrbitals(width, height, dpr, context, u) ==
    LET qualityScale == QualityScale(width, height)
    IN  initializeElectrons(
            [ctx |-> context,
             canvasWidth |-> width, canvasHeight |-> height,
             time |-> 0,
             centerX |-> Mul(Whole(width), Num(1, 2)),
             centerY |-> Mul(Whole(height), Num(1, 2)),
             maxRadius |-> Mul(Whole(MinInt(width, height)), Num(4, 10)),
             pixelRatio |-> PixelRatio(dpr, qualityScale),
             qualityScale |-> qualityScale,
             currentEnergyLevel |-> 1,
             energyLevelTimer |-> 0,
             electrons |-> 0,
             electron |-> NewElectron(Whole(0))],
            u)

\* ChemicalOrbitalsRenderer.resize(width, height)
ResizeOrbitals(o, width, height, dpr, u) ==
    LET qualityScale == ResizeQualityScale(width, height)
    IN  initializeElectrons(
            [o EXCEPT !.qualityScale = qualityScale,
                      !.pixelRatio = ResizePixelRatio(dpr, qualityScale),
                      !.canvasWidth = width,
                      !.canvasHeight = height,
                      !.centerX = Mul(Whole(width), Num(1, 2)),
                      !.centerY = Mul(Whole(height), Num(1, 2)),
                      !.maxRadius = Mul(Whole(MinInt(width, height)), Num(4, 10)),
                      !.electrons = 0],
            u)

\* new KaleidoscopeRenderer(canvas)
NewKaleidoscope(width, height, dpr, context) ==
    LET qualityScale == kQualityScale(width, height)
    IN  initializeParticles(
            [ctx |-> context, offscreenCtx |-> "2d",
             canvasWidth |-> width, canvasHeight |-> height,
             offscreenWidth |-> width, offscreenHeight |-> height,
             segments |-> 12,
             particles |-> 0,
             time |-> 0,
             hueOffset |-> Whole(0),
             centerX |-> Div(Whole(width), Whole(2)),
             centerY |-> Div(Whole(height), Whole(2)),
             maxRadius |-> Mul(Whole(MinInt(width, height)), Num(8, 10)),
             pixelRatio |-> kPixelRatio(dpr, qualityScale),
             qualityScale |-> qualityScale])

\* variant: resize() keeps the pool it finds and fills it again
ResizeKaleidoscopeAppending(k, width, height, dpr) ==
    LET qualityScale == kQualityScale(width, height)
    IN  initializeParticles(
            [k EXCEPT !.qualityScale = qualityScale,
                      !.pixelRatio = kPixelRatio(dpr, qualityScale),
                      !.canvasWidth = width,
                      !.canvasHeight = height,
                      !.offscreenWidth = width,
                      !.offscreenHeight = height,
                      !.centerX = Div(Whole(width), Whole(2)),
                      !.centerY = Div(Whole(height), Whole(2)),
                      !.maxRadius = Mul(Whole(MinInt(width, height)), Num(8, 10))])

\* KaleidoscopeRenderer.resize(width, height)
ResizeKaleidoscope(k, width, height, dpr) ==
    LET qualityScale == kQualityScale(width, height)
    IN  initializeParticles(
            [k EXCEPT !.qualityScale = qualityScale,
                      !.pixelRatio = kPixelRatio(dpr, qualityScale),
                      !.canvasWidth = width,
                      !.canvasHeight = height,
                      !.offscreenWidth = width,
                      !.offscreenHeight = height,
                      !.centerX = Div(Whole(width), Whole(2)),
                      !.centerY = Div(Whole(height), Whole(2)),
                      !.maxRadius = Mul(Whole(MinInt(width, height)), Num(8, 10)),
                      !.particles = 0])

----------------------------------------------------------------------------
(* ChemicalOrbitalsRenderer.render                                         *)

\* this.energyLevelTimer >= this.energyLevelDuration
NominalFires(o) == o.energyLevelTimer >= energyLevelDuration

\* variant: the audio term of transitionSpeed is not doubled
AdjustedFiresUndoubled(o, audioIntensity) ==
    LET transitionSpeed == Add(Whole(1), audioIntensity)
    IN  Geq(Whole(o.energyLevelTimer),
            Div(Whole(energyLevelDuration), transitionSpeed))

\* variant: the adjusted threshold compared with > instead of >=
AdjustedFiresStrict(o, audioIntensity) ==
    LET transitionSpeed == Add(Whole(1), Mul(audioIntensity, Whole(2)))
    IN  Gt(Whole(o.energyLevelTimer),
           Div(Whole(energyLevelDuration), transitionSpeed))

\* this.energyLevelTimer >= this.energyLevelDuration / transitionSpeed
AdjustedFires(o, audioIntensity) ==
    LET transitionSpeed == Add(Whole(1), Mul(audioIntensity, Whole(2)))
    IN  Geq(Whole(o.energyLevelTimer),
            Div(Whole(energyLevelDuration), transitionSpeed))

\* variant: the level is incremented without wrapping at MAX_ENERGY_LEVEL
AdvanceNoWrap(o) ==
    [o EXCEPT !.energyLevelTimer = 0, !.currentEnergyLevel = @ + 1]

\* variant: the modulus is taken of the incremented level
AdvanceSkipping(o) ==
    [o EXCEPT !.energyLevelTimer = 0,
              !.currentEnergyLevel = ((@ + 1) % MAX_ENERGY_LEVEL) + 1]

\* the body of both checks: reset the timer, step to the next level
Advance(o) ==
    [o EXCEPT !.energyLevelTimer = 0,
              !.currentEnergyLevel = (@ % MAX_ENERGY_LEVEL) + 1]

\* variant: the nominal check steps the level but leaves the timer running
CycleNominalKeepTimer(o) ==
    IF o.energyLevelTimer >= energyLevelDuration
    THEN [o EXCEPT !.currentEnergyLevel = (@ % MAX_ENERGY_LEVEL) + 1]
    ELSE o

\* "Cycle through energy levels"
CycleNominal(o) == IF NominalFires(o) THEN Advance(o) ELSE o

\* "Speed up transitions with audio"
CycleAdjusted(o, audioIntensity) ==
    IF AdjustedFires(o, audioIntensity) THEN Advance(o) ELSE o

\* the audio metrics computed at the top of render()
AudioMetrics(dataArray, bufferLength) ==
    [overall |-> Mul(Div(Whole(SumRange(dataArray, 0, bufferLength)),
                         Whole(bufferLength)), INV_255),
     bass |-> getFrequencyBandIntensity(dataArray, bufferLength,
                                        BassBand[1], BassBand[2]),
     mid |-> getFrequencyBandIntensity(dataArray, bufferLength,
                                       MidBand[1], MidBand[2]),
     treble |-> getFrequencyBandIntensity(dataArray, bufferLength,
                                          TrebleBand[1], TrebleBand[2])]

\* variant: every update adds an electron to the pool
updateElectronsPushing(o, audioIntensity, bassIntensity) ==
    LET n == o.currentEnergyLevel
        speed == Mul(o.electron.speed,
                     Add(Add(Whole(1), Mul(audioIntensity, Whole(2))),
                         bassIntensity))
    IN  [o EXCEPT !.electron.angleStep = Div(speed, Whole(n * n)),
                  !.electron.phaseStep = Mul(speed, Num(1, 2)),
                  !.electrons = @ + 1]

\* variant: the angle advances by the speed itself, at every level
updateElectronsUndivided(o, audioIntensity, bassIntensity) ==
    LET speed == Mul(o.electron.speed,
                     Add(Add(Whole(1), Mul(audioIntensity, Whole(2))),
                         bassIntensity))
    IN  [o EXCEPT !.electron.angleStep = speed,
                  !.electron.phaseStep = Mul(speed, Num(1, 2))]

\* updateElectrons: the forEach advances the angle and the phase of each
\* electron of the pool (x, y and z are recomputed from them and never read
\* back); the pool keeps its length
updateElectrons(o, audioIntensity, bassIntensity) ==
    LET n == o.currentEnergyLevel
        speed == Mul(o.electron.speed,
                     Add(Add(Whole(1), Mul(audioIntensity, Whole(2))),
                         bassIntensity))
    IN  [o EXCEPT !.electron.angleStep = Div(speed, Whole(n * n)),
                  !.electron.phaseStep = Mul(speed, Num(1, 2))]

\* one canvas call: the context it is made on, the method, its argument
Op(on, method, arg) == [on |-> on, op |-> method, arg |-> arg]

\* the calls of a loop that runs its body `count` times (built by halves, so
\* that a hundred turns nest seven deep)
RECURSIVE Repeat(_, _)
Repeat(ops, count) ==
    IF count <= 0 THEN <<>>
    ELSE IF count = 1 THEN ops
    ELSE LET half == count \div 2
         IN  Repeat(ops, half) \o Repeat(ops, count - half)

\* The draw routines of the Chemical renderer, as the methods they call on the
\* one context of the renderer: those of the transform stack, and one entry
\* for what they paint.

\* drawEnergyLevelLabel: the label, drawn between a save and a restore
drawEnergyLevelLabel ==
    <<"save", "fillText",
      "restore">>

\* drawNucleus: the nucleus and its core, about the centre
drawNucleus ==
    <<"save", "translate",
      "fill", "restore">>

\* draw1sOrbital, draw2sOrbital, draw3sOrbital and drawShell: painted under
\* the transform of their caller
drawSphere == <<"fill">>

\* drawDumbbellOrbital: two lobes and their axis, rotated
drawDumbbellOrbital ==
    <<"save", "rotate",
      "fill", "restore">>

\* drawCloverleafOrbital: four lobes, rotated
drawCloverleafOrbital ==
    <<"save", "rotate",
      "fill", "restore">>

\* variant: the shells of the higher levels return without the restore
drawOrbitalsReturningEarly(n) ==
    <<"save", "translate">>
    \o (IF n = 1 THEN drawSphere \o <<"restore">>
        ELSE IF n = 2 THEN drawSphere \o Repeat(drawDumbbellOrbital, 3)
                           \o <<"restore">>
        ELSE IF n = 3 THEN drawSphere \o Repeat(drawDumbbellOrbital, 3)
                           \o Repeat(drawCloverleafOrbital, 5)
                           \o <<"restore">>
        ELSE Repeat(drawSphere, n))

\* drawOrbitals(ctx, n, ...): the orbitals of level n about the centre
drawOrbitals(n) ==
    <<"save", "translate">>
    \o (IF n = 1 THEN drawSphere
        ELSE IF n = 2 THEN drawSphere \o Repeat(drawDumbbellOrbital, 3)
        ELSE IF n = 3 THEN drawSphere \o Repeat(drawDumbbellOrbital, 3)
                           \o Repeat(drawCloverleafOrbital, 5)
        ELSE Repeat(drawSphere, n))
    \o <<"restore">>

\* drawElectrons: the electrons filled under one translation (the fills of
\* the forEach as one entry)
drawElectrons ==
    <<"save", "translate",
      "fill", "restore">>

\* the canvas calls of render() at level n: the fade, the label, the
\* orbitals, the nucleus, the electrons
drawFrame(n) ==
    <<"fillRect">>
    \o drawEnergyLevelLabel
    \o drawOrbitals(n)
    \o drawNucleus
    \o drawElectrons

\* render(dataArray, bufferLength): the renderer after the call and the locals
\* of the call (the metrics, and which of the two checks fired).  The draw
\* routines leave every modelled field as it is.  Without
\* a context the assignment ctx.fillStyle = ... raises a TypeError, after time,
\* energyLevelTimer and currentEnergyLevel were written.
RenderOrbitals(o, dataArray, bufferLength) ==
    LET ticked == [o EXCEPT !.time = @ + 1, !.energyLevelTimer = @ + 1]
        m == AudioMetrics(dataArray, bufferLength)
        afterNominal == CycleNominal(ticked)
        afterAdjusted == CycleAdjusted(afterNominal, m.overall)
    IN  [o |-> IF o.ctx = "null" THEN afterAdjusted
               ELSE updateElectrons(afterAdjusted, m.overall, m.bass),
         thrown |-> IF o.ctx = "null" THEN "TypeError" ELSE "none",
         log |-> IF o.ctx = "null" THEN <<>>
                 ELSE drawFrame(afterAdjusted.currentEnergyLevel),
         m |-> [overall |-> m.overall, bass |-> m.bass, mid |-> m.mid,
                treble |-> m.treble,
                nominal |-> NominalFires(ticked),
                adjusted |-> AdjustedFires(afterNominal, m.overall)]]

----------------------------------------------------------------------------
(* KaleidoscopeRenderer.render                                             *)

\* x % 360 for a non-negative value
Mod360(x) ==
    IF ~IsNum(x) THEN NaN ELSE Num(x.n % (360 * x.d), x.d)

\* the audio metrics computed at the top of render()
kAudioMetrics(dataArray, bufferLength) ==
    [overall |-> Div(Div(Whole(SumRange(dataArray, 0, Len(dataArray))),
                         Whole(bufferLength)),
                     Whole(255)),
     bass |-> kGetFrequencyBandIntensity(dataArray, bufferLength,
                                         BassBand[1], BassBand[2]),
     mid |-> kGetFrequencyBandIntensity(dataArray, bufferLength,
                                        MidBand[1], MidBand[2]),
     treble |-> kGetFrequencyBandIntensity(dataArray, bufferLength,
                                           TrebleBand[1], TrebleBand[2])]

\* variant: a bass that is not a number retargets this.segments as 0 does
RetargetUnguarded(k, bassIntensity) ==
    LET target == IF IsNum(bassIntensity)
                  THEN Floor(Add(Whole(12), Mul(bassIntensity, Whole(20))))
                  ELSE 0
    IN  IF Abs(k.segments - target) > 0 /\ k.time % 5 = 0
        THEN [k EXCEPT !.segments = target]
        ELSE k

\* variant: this.segments is retargeted on every tick
RetargetEveryTick(k, bassIntensity) ==
    LET target == Add(Whole(12), Mul(bassIntensity, Whole(20)))
    IN  IF IsNum(target) /\ Abs(k.segments - Floor(target)) > 0
        THEN [k EXCEPT !.segments = Floor(target)]
        ELSE k

\* targetSegments, and the retargeting of this.segments every fifth tick
Retarget(k, bassIntensity) ==
    LET target == Add(Whole(12), Mul(bassIntensity, Whole(20)))
    IN  IF IsNum(target) /\ Abs(k.segments - Floor(target)) > 0 /\ k.time % 5 = 0
        THEN [k EXCEPT !.segments = Floor(target)]
        ELSE k

\* segmentAngle = (Math.PI * 2) / this.segments, in turns
segmentAngle(k) == Num(1, k.segments)

\* (Math.random() - 0.5) * 2 for the draw u of Math.random()
Velocity(u) == Mul(Add(u, Num(-1, 2)), Whole(2))

\* the particle initializeParticles() pushes, for the draws of Math.random().
\* Beside the fields of a Particle the record keeps, for the properties below,
\* the number of updates since it was spawned and what the last update did:
\* whether it reflected the particle, whether it respawned it, whether the
\* particle's life had run out, and the radial distance it tested.
\* variant: particles are seeded in the wedge of the initial 12 segments
NewParticleInitialWedge(k, seed) ==
    [angle |-> Mul(seed.angle, Num(1, 12)),
     radius |-> Mul(Mul(seed.radius, k.maxRadius), Num(1, 2)),
     vx |-> Velocity(seed.vx), vy |-> Velocity(seed.vy),
     size |-> Add(Whole(5), Mul(seed.size, Whole(15))),
     hue |-> Mul(seed.hue, Whole(360)),
     life |-> Whole(1),
     sinceSpawn |-> 0, reflected |-> FALSE, respawned |-> FALSE,
     expired |-> FALSE,
     distance |-> Mul(Mul(seed.radius, k.maxRadius), Num(1, 2))]

NewParticle(k, seed) ==
    [angle |-> Mul(seed.angle, segmentAngle(k)),
     radius |-> Mul(Mul(seed.radius, k.maxRadius), Num(1, 2)),
     vx |-> Velocity(seed.vx), vy |-> Velocity(seed.vy),
     size |-> Add(Whole(5), Mul(seed.size, Whole(15))),
     hue |-> Mul(seed.hue, Whole(360)),
     life |-> Whole(1),
     sinceSpawn |-> 0, reflected |-> FALSE, respawned |-> FALSE,
     expired |-> FALSE,
     distance |-> Mul(Mul(seed.radius, k.maxRadius), Num(1, 2))]

\* if (particleAngle < 0) particleAngle += Math.PI * 2
WrapAngle(particleAngle) ==
    IF Lt(particleAngle, Whole(0)) THEN Add(particleAngle, Whole(1))
    ELSE particleAngle

\* if (particleAngle > segmentAngle)
Reflects(k, particleAngle) == Gt(particleAngle, segmentAngle(k))

\* particleAngle = segmentAngle - (particleAngle - segmentAngle)
Reflected(k, particleAngle) ==
    Add(segmentAngle(k),
        Mul(Whole(-1), Add(particleAngle, Mul(Whole(-1), segmentAngle(k)))))

\* variant: a particle is respawned only once its life is below 0
RespawnsWhenNegative(k, life, radius) ==
    Gt(Whole(0), life) \/ Gt(radius, Mul(k.maxRadius, Num(6, 10)))

\* variant: a particle is respawned beyond half of maxRadius
RespawnsAtHalfRadius(k, life, radius) ==
    Geq(Whole(0), life) \/ Gt(radius, Mul(k.maxRadius, Num(5, 10)))

\* variant: only an over-long radius respawns a particle
RespawnsByRadiusOnly(k, life, radius) ==
    Gt(radius, Mul(k.maxRadius, Num(6, 10)))

\* if (particle.life <= 0 || radius > this.maxRadius * 0.6)
Respawns(k, life, radius) ==
    Geq(Whole(0), life) \/ Gt(radius, Mul(k.maxRadius, Num(6, 10)))

\* the body of the forEach of updateParticles(), for one particle.  moved is
\* the polar position after the velocity step and the rotation (the values of
\* Math.atan2 in (-1/2, 1/2] turns and of Math.sqrt); seed holds the draws of
\* Math.random() of a respawn.
updateParticle(k, p, audioIntensity, bassIntensity, moved, seed) ==
    LET speedMultiplier ==
            Add(Add(Whole(1), Mul(audioIntensity, Num(3, 2))),
                Mul(bassIntensity, Num(8, 10)))
        lost == ~IsNum(speedMultiplier) \/ ~IsNum(p.angle)
        radius ==
            IF IsNaN(speedMultiplier) \/ ~IsNum(p.angle) THEN NaN
            ELSE IF ~IsNum(speedMultiplier)
                 THEN (IF p.vx.n # 0 /\ p.vy.n # 0 THEN Infinity ELSE NaN)
                 ELSE moved.radius
        life == Add(p.life, Num(-5, 1000))
        particleAngle == IF lost THEN NaN ELSE WrapAngle(moved.angle)
        reflects == Reflects(k, particleAngle)
        bounded ==
            IF reflects
            THEN [p EXCEPT !.angle = Reflected(k, particleAngle),
                           !.radius = radius,
                           !.vx = Mul(@, Num(-8, 10)),
                           !.vy = Mul(@, Num(-8, 10)),
                           !.life = life]
            ELSE [p EXCEPT !.angle = IF lost THEN NaN ELSE moved.angle,
                           !.radius = radius,
                           !.life = life]
    IN  IF Respawns(k, life, radius)
        THEN [angle |-> Mul(seed.angle, segmentAngle(k)),
              radius |-> Mul(seed.radius, Whole(50)),
              vx |-> Velocity(seed.vx), vy |-> Velocity(seed.vy),
              size |-> Add(Add(Whole(5), Mul(seed.size, Whole(15))),
                           Mul(bassIntensity, Whole(10))),
              hue |-> Mul(seed.hue, Whole(360)),
              life |-> Whole(1),
              sinceSpawn |-> 0, reflected |-> reflects, respawned |-> TRUE,
              expired |-> Geq(Whole(0), life), distance |-> radius]
        ELSE [bounded EXCEPT !.sinceSpawn = @ + 1, !.reflected = reflects,
                             !.respawned = FALSE, !.expired = FALSE,
                             !.distance = radius]

\* fadeRate, and the fade fill of the destination
FadeOps(k) ==
    LET fadeRate ==
            Mul(Num(5, 100),
                Add(Whole(1),
                    Mul(Add(Whole(1), Mul(Whole(-1), k.qualityScale)),
                        Num(1, 2))))
    IN  <<Op("ctx", "fillRect", fadeRate)>>

\* drawRays: floor(20 * qualityScale) rays, each stroked between a save and a
\* restore
drawRays(k) ==
    Repeat(<<Op("offscreenCtx", "save", Whole(0)),
             Op("offscreenCtx", "stroke", Whole(0)),
             Op("offscreenCtx", "restore", Whole(0))>>,
           Floor(Mul(Whole(20), k.qualityScale)))

\* drawParticles: a particle whose life is <= 0 is skipped before any call;
\* every other one is filled twice under its own translation (the particles
\* as the one followed)
drawParticles(k, p) ==
    Repeat(IF Geq(Whole(0), p.life) THEN <<>>
           ELSE <<Op("offscreenCtx", "save", Whole(0)),
                  Op("offscreenCtx", "translate", p.radius),
                  Op("offscreenCtx", "fill", Whole(0)),
                  Op("offscreenCtx", "fill", Whole(0)),
                  Op("offscreenCtx", "restore", Whole(0))>>,
           k.particles)

\* drawGeometricPatterns: floor(6 * qualityScale) circles, then one rotated
\* hexagon
drawGeometricPatterns(k) ==
    Repeat(<<Op("offscreenCtx", "save", Whole(0)),
             Op("offscreenCtx", "stroke", Whole(0)),
             Op("offscreenCtx", "restore", Whole(0))>>,
           Floor(Mul(Whole(6), k.qualityScale)))
    \o <<Op("offscreenCtx", "save", Whole(0)),
         Op("offscreenCtx", "rotate", Whole(0)),
         Op("offscreenCtx", "fill", Whole(0)),
         Op("offscreenCtx", "stroke", Whole(0)),
         Op("offscreenCtx", "restore", Whole(0))>>

\* drawKaleidoscopicLayers: floor(3 * qualityScale) rotated stars
drawKaleidoscopicLayers(k) ==
    Repeat(<<Op("offscreenCtx", "save", Whole(0)),
             Op("offscreenCtx", "rotate", Whole(0)),
             Op("offscreenCtx", "stroke", Whole(0)),
             Op("offscreenCtx", "restore", Whole(0))>>,
           Floor(Mul(Whole(3), k.qualityScale)))

\* this.offscreenCtx.clearRect(...) and drawSegment(...)
drawSegment(k, p) ==
    <<Op("offscreenCtx", "clearRect", Whole(0)),
      Op("offscreenCtx", "save", Whole(0)),
      Op("offscreenCtx", "translate", k.centerX),
      Op("offscreenCtx", "clip", segmentAngle(k)),
      Op("offscreenCtx", "fillRect", Whole(1))>>
    \o drawRays(k)
    \o drawParticles(k, p)
    \o drawGeometricPatterns(k)
    \o drawKaleidoscopicLayers(k)
    \o <<Op("offscreenCtx", "restore", Whole(0))>>

\* variant: the even-numbered segments are the mirrored ones
BlitMirroringEven(k, i) ==
    <<Op("ctx", "save", Whole(0)),
      Op("ctx", "rotate", Mul(segmentAngle(k), Whole(i)))>>
    \o (IF i % 2 = 0 THEN <<Op("ctx", "scale", Whole(-1))>> ELSE <<>>)
    \o <<Op("ctx", "drawImage", Whole(i)), Op("ctx", "restore", Whole(0))>>

\* the body of the loop over the segments: segment i drawn from the offscreen
\* canvas (scale's argument is its y factor, drawImage's the segment drawn)
Blit(k, i) ==
    <<Op("ctx", "save", Whole(0)),
      Op("ctx", "rotate", Mul(segmentAngle(k), Whole(i)))>>
    \o (IF i % 2 = 1 THEN <<Op("ctx", "scale", Whole(-1))>> ELSE <<>>)
    \o <<Op("ctx", "drawImage", Whole(i)), Op("ctx", "restore", Whole(0))>>

\* for (let i = from; i < this.segments; i++) { ... }
RECURSIVE Blits(_, _)
Blits(k, from) ==
    IF from >= k.segments THEN <<>> ELSE Blit(k, from) \o Blits(k, from + 1)

\* the mirroring of the segment onto the destination
Composite(k) ==
    <<Op("ctx", "save", Whole(0)), Op("ctx", "translate", k.centerX)>>
    \o Blits(k, 0)
    \o <<Op("ctx", "restore", Whole(0))>>

\* render(dataArray, bufferLength): the fields, the locals, the particle and
\* the canvas calls it leaves, and the error it raises.  Without a context the
\* assignment ctx.fillStyle = ... raises a TypeError after time and hueOffset
\* were written.
RenderKaleidoscope(k, p, dataArray, bufferLength, moved, seed) ==
    LET m == kAudioMetrics(dataArray, bufferLength)
        ticked == [k EXCEPT !.time = @ + 1]
        hued == [ticked EXCEPT !.hueOffset =
                    Mod360(Add(Add(@, Num(1, 2)), Mul(m.bass, Whole(2))))]
        retargeted == Retarget(hued, m.bass)
    IN  IF k.ctx = "null"
        THEN [k |-> hued, m |-> m, p |-> p, log |-> <<>>,
              thrown |-> "TypeError"]
        ELSE [k |-> retargeted, m |-> m,
              p |-> updateParticle(retargeted, p, m.overall, m.bass, moved, seed),
              log |-> FadeOps(hued) \o drawSegment(retargeted, p)
                      \o Composite(retargeted)
                      \o <<Op("particles", "updateParticles", Whole(0))>>,
              thrown |-> "none"]

----------------------------------------------------------------------------
(* DynamicTitle                                                            *)
(* A function component with one state cell and two passive effects.  The *)
(* page records the values of the player context and of window.electron,  *)
(* the state cell, the values the last render of the component closed     *)
(* over, the effects that render scheduled and that have not run yet, and *)
(* document.title.  A title is the sequence of the parts of the template  *)
(* string.                                                                 *)

NoTrack == [artist |-> "", title |-> ""]

\* the page before the component is mounted
Unmounted(electron) ==
    [mounted |-> FALSE, electron |-> electron,
     currentTrack |-> NoTrack, isPlaying |-> FALSE,
     isElectron |-> FALSE,
     rendered |-> [currentTrack |-> NoTrack, isPlaying |-> FALSE,
                   isElectron |-> FALSE],
     pending |-> <<>>, stale |-> FALSE,
     title |-> <<"">>]

\* what one render of the component closes over
Closure(g) ==
    [currentTrack |-> g.currentTrack, isPlaying |-> g.isPlaying,
     isElectron |-> g.isElectron]

\* variant: the title effect does not depend on isElectron
TitleDepsWithoutPlatform(r) == <<r.currentTrack, r.isPlaying>>

\* the dependency array of the title effect
TitleDeps(r) == <<r.currentTrack, r.isPlaying, r.isElectron>>

\* setIsElectron(!!window.electron?.isElectron): a changed state asks for a
\* render
DetectElectron(g) ==
    [g EXCEPT !.isElectron = g.electron,
              !.stale = @ \/ (g.electron # g.isElectron)]

\* the body of the title effect, over the values its render closed over
UpdateTitle(g) ==
    LET r == g.rendered
    IN  [g EXCEPT !.title =
            IF r.currentTrack # NoTrack /\ r.isPlaying
            THEN <<r.currentTrack.artist, " - ", r.currentTrack.title>>
            ELSE IF r.isElectron THEN <<"Starchild">> ELSE <<"darkfloor.art">>]

----------------------------------------------------------------------------
(* FlowFieldBackground, the version on the shared audio connection         *)
(* A function component with one state cell (isPlaying), seven refs and    *)
(* four passive effects: the play/pause listeners [audioElement], the Web  *)
(* Audio set-up [audioElement], the renderer [onRendererReady] and the     *)
(* animation loop [isPlaying].  A commit runs the clean-ups of the effects *)
(* whose dependencies changed, in source order, and then their bodies, in  *)
(* source order.  An analyser is named by the audio element of its         *)
(* connection.  The browser holds the frame callbacks requested and not    *)
(* yet run or cancelled, each with the analyser its closure captured.      *)

Elements == {"a", "b"}

\* the component before it is mounted, over audio elements paused as given
NoFlow(paused) ==
    [mounted |-> FALSE,
     audioElement |-> "none",
     paused |-> paused,
     isPlaying |-> FALSE,
     rendered |-> [audioElement |-> "none", isPlaying |-> FALSE],
     listening |-> "none",
     cleanupAudio |-> FALSE,
     cleanupLoop |-> FALSE,
     analyserRef |-> "none",
     rendererRef |-> FALSE,
     connectedAudioElementRef |-> "none",
     animationFrameRef |-> 0,
     requested |-> {},
     nextId |-> 1,
     acquired |-> [e \in Elements |-> 0],
     released |-> [e \in Elements |-> 0],
     commits |-> 0,
     frames |-> 0,
     renders |-> 0,
     rendersInFrame |-> 0,
     fed |-> "none"]

\* cancelAnimationFrame(id)
cancelAnimationFrame(g, id) ==
    [g EXCEPT !.requested = {c \in @ : c.id # id}]

\* releaseAudioConnection(element)
releaseAudioConnection(g, element) ==
    [g EXCEPT !.released[element] = @ + 1]

\* the body of the play/pause effect: setIsPlaying(!audioElement.paused) and
\* the two listeners, or setIsPlaying(false) without an element
EventsEffect(g) ==
    LET audioElement == g.rendered.audioElement
    IN  IF audioElement = "none"
        THEN [g EXCEPT !.isPlaying = FALSE, !.listening = "none"]
        ELSE [g EXCEPT !.isPlaying = ~g.paused[audioElement],
                       !.listening = audioElement]

\* the clean-up of the play/pause effect, where it returned one
EventsCleanup(g) == [g EXCEPT !.listening = "none"]

\* the four refs of the connection set to null
NoConnection(g) ==
    [g EXCEPT !.analyserRef = "none", !.connectedAudioElementRef = "none"]

\* variant: the clean-up releases the connection and keeps the ref to the
\* element
AudioCleanupKeepingRef(g) ==
    IF ~g.cleanupAudio THEN g
    ELSE LET h == IF g.connectedAudioElementRef # "none"
                  THEN releaseAudioConnection(g, g.connectedAudioElementRef)
                  ELSE g
         IN  [h EXCEPT !.analyserRef = "none", !.cleanupAudio = FALSE]

\* the clean-up of the Web Audio effect, where it returned one
AudioCleanup(g) ==
    IF ~g.cleanupAudio THEN g
    ELSE LET h == IF g.connectedAudioElementRef # "none"
                  THEN releaseAudioConnection(g, g.connectedAudioElementRef)
                  ELSE g
         IN  [NoConnection(h) EXCEPT !.cleanupAudio = FALSE]

\* the body of the Web Audio effect; connection tells whether
\* getOrCreateAudioConnection returned a connection or null
AudioEffect(g, connection) ==
    LET audioElement == g.rendered.audioElement
    IN  IF audioElement = "none"
        THEN NoConnection(
                 IF g.connectedAudioElementRef # "none"
                 THEN releaseAudioConnection(g, g.connectedAudioElementRef)
                 ELSE g)
        ELSE IF ~connection
        THEN NoConnection(g)
        ELSE [g EXCEPT !.acquired[audioElement] = @ + 1,
                       !.analyserRef = audioElement,
                       !.connectedAudioElementRef = audioElement,
                       !.cleanupAudio = TRUE]

\* animate(): one render() from the analyser the loop captured, then the
\* request of the next frame
animate(g, analyser) ==
    [g EXCEPT !.fed = analyser,
              !.renders = @ + 1,
              !.rendersInFrame = @ + 1,
              !.requested = @ \cup {[id |-> g.nextId, analyser |-> analyser]},
              !.animationFrameRef = g.nextId,
              !.nextId = @ + 1]

\* the clean-up of the animation loop effect, where it returned one
LoopCleanup(g) ==
    IF ~g.cleanupLoop THEN g
    ELSE [(IF g.animationFrameRef # 0
           THEN [cancelAnimationFrame(g, g.animationFrameRef)
                    EXCEPT !.animationFrameRef = 0]
           ELSE g) EXCEPT !.cleanupLoop = FALSE]

\* the body of the animation loop effect, over the isPlaying its render
\* closed over and the refs as they are when it runs
LoopEffect(g) ==
    IF ~g.rendered.isPlaying \/ g.analyserRef = "none" \/ ~g.rendererRef
    THEN IF g.animationFrameRef # 0
         THEN [cancelAnimationFrame(g, g.animationFrameRef)
                  EXCEPT !.animationFrameRef = 0]
         ELSE g
    ELSE [animate(g, g.analyserRef) EXCEPT !.cleanupLoop = TRUE]

\* one frame of the browser: every callback requested before it runs once
RECURSIVE RunCallbacks(_, _)
RunCallbacks(g, callbacks) ==
    IF callbacks = {} THEN g
    ELSE LET c == CHOOSE x \in callbacks : \A y \in callbacks : x.id <= y.id
         IN  RunCallbacks(
                 animate([g EXCEPT !.requested = @ \ {c}], c.analyser),
                 callbacks \ {c})

----------------------------------------------------------------------------
(* FlowFieldBackground, the version on the module-level WeakMap            *)
(* The map connectedAudioElements outlives the component.  The browser     *)
(* binds an audio element to the first source node created for it, for     *)
(* good, and createMediaElementSource raises on an element already bound.  *)

NoWeak ==
    [mounted |-> FALSE,
     audioElement |-> "none",
     connectedAudioElements |-> [e \in Elements |-> "none"],
     state |-> [e \in Elements |-> "none"],
     bound |-> [e \in Elements |-> FALSE],
     sourceCalls |-> [e \in Elements |-> 0],
     closed |-> [e \in Elements |-> FALSE],
     analyserRef |-> "none",
     sourceNodeRef |-> "none",
     connectedAudioElementRef |-> "none",
     cleanup |-> FALSE,
     reused |-> FALSE,
     commits |-> 0]

\* the refs of the connection but connectedAudioElementRef set to null
WeakCleanup(w) ==
    IF ~w.cleanup THEN w
    ELSE [w EXCEPT !.analyserRef = "none", !.sourceNodeRef = "none",
                   !.cleanup = FALSE]

\* the part of the effect that creates a connection: created tells whether
\* new AudioContext() returned or raised
CreateConnection(w, audioElement, created) ==
    IF ~created \/ w.bound[audioElement]
    THEN [w EXCEPT !.sourceCalls[audioElement] =
                       IF created THEN @ + 1 ELSE @,
                   !.analyserRef = "none", !.sourceNodeRef = "none",
                   !.connectedAudioElementRef = "none",
                   !.cleanup = TRUE, !.reused = FALSE]
    ELSE [w EXCEPT !.sourceCalls[audioElement] = @ + 1,
                   !.bound[audioElement] = TRUE,
                   !.connectedAudioElements[audioElement] = "stored",
                   !.state[audioElement] = "running",
                   !.analyserRef = audioElement,
                   !.sourceNodeRef = audioElement,
                   !.connectedAudioElementRef = audioElement,
                   !.cleanup = TRUE, !.reused = FALSE]

\* variant: every run of the effect creates a connection
WeakEffectAlwaysCreating(w, audioElement, created) ==
    IF audioElement = "none"
    THEN [w EXCEPT !.analyserRef = "none", !.sourceNodeRef = "none",
                   !.connectedAudioElementRef = "none", !.cleanup = FALSE,
                   !.reused = FALSE]
    ELSE CreateConnection(w, audioElement, created)

\* the body of the Web Audio effect
WeakEffect(w, audioElement, created) ==
    IF audioElement = "none"
    THEN [w EXCEPT !.analyserRef = "none", !.sourceNodeRef = "none",
                   !.connectedAudioElementRef = "none", !.cleanup = FALSE,
                   !.reused = FALSE]
    ELSE IF w.connectedAudioElements[audioElement] = "stored"
    THEN IF w.state[audioElement] # "closed"
         THEN [w EXCEPT !.analyserRef = audioElement,
                        !.sourceNodeRef = audioElement,
                        !.connectedAudioElementRef = audioElement,
                        !.cleanup = FALSE, !.reused = TRUE]
         ELSE CreateConnection(
                  [w EXCEPT !.connectedAudioElements[audioElement] = "none"],
                  audioElement, created)
    ELSE CreateConnection(w, audioElement, created)

----------------------------------------------------------------------------
(* Inputs                                                                  *)

MaxTime == 301        \* render() calls per run, buffers switched freely
MaxCycleTicks == 620  \* render() calls per run, long enough for 6 -> 1
MaxFrameTicks == 2    \* render() calls per renderer on one shared frame
MaxLen == 4           \* longest enumerated buffer and length argument
MaxPoolTicks == 2     \* render() calls per renderer between resizes
MaxSegmentTicks == 11 \* render() calls per run, past two retargeting ticks
MaxSetupTicks == 2    \* render() calls per renderer after a construction
MaxLifeTicks == 202   \* render() calls per run, past one whole particle life
EscapePeriod == 10    \* ticks between two chances of leaving the centre
MaxWedgeTicks == 6    \* render() calls per run, past one retargeting tick

Frame(dataArray, bufferLength) ==
    [dataArray |-> dataArray, bufferLength |-> bufferLength]

Constant(value, length) == [i \in 1..length |-> value]
Ramp(length) == [i \in 1..length |-> i - 1]

Silence == Frame(Constant(0, 8), 8)
NoBins == Frame(<<>>, 0)
Half128 == Frame(Constant(128, 1024), 1024)
Full255 == Frame(Constant(255, 100), 100)
Mixed == Frame(<<255, 0, 255, 0, 0, 0, 255, 0>>, 8)

\* frames of non-zero audio, fed unchanged for a whole run
NonZeroFrames == {Half128, Full255, Mixed, Frame(Constant(1, 8), 8)}

\* frames the driver may switch between from one tick to the next
AudioFrames == {Silence, NoBins, Mixed, Frame(Constant(255, 8), 8)}

\* every buffer of up to MaxLen sampled bytes with every length argument up to
\* MaxLen + 1 (shorter than, equal to and longer than the buffer), and three
\* 100-bin buffers
BandFrames ==
    {Frame(b, l) : b \in UNION {[1..n -> {0, 128, 255}] : n \in 0..MaxLen},
                   l \in 0..(MaxLen + 1)}
    \cup {Full255, Frame(Constant(0, 100), 100), Frame(Ramp(100), 100),
          Frame(Ramp(100), 80), Frame(Ramp(10), 10)}

Surface(width, height) == [width |-> width, height |-> height]

Surfaces == {Surface(1000, 1000), Surface(1920, 1080), Surface(3840, 2160),
             Surface(1921, 1080), Surface(2000, 1500), Surface(0, 0)}

\* window.devicePixelRatio: absent (0), 1, 1.5, 2, 3
DevicePixelRatios == {Whole(0), Whole(1), Num(3, 2), Whole(2), Whole(3)}

SmallSurfaces == {Surface(1000, 1000), Surface(3840, 2160)}

\* surfaces of full, capped (0.7) and area-scaled (0.25) quality
PoolSurfaces == {Surface(1000, 1000), Surface(1921, 1080), Surface(3840, 2160)}

PoolFrames == {Silence, Mixed}

\* tracks as the player context publishes them: artist.name and title strings
Tracks ==
    {[artist |-> "Artist A", title |-> "Title A"],
     [artist |-> "Artist B", title |-> "Title B"]}

\* what canvas.getContext('2d') returns: a context, or null
Contexts == {"2d", "null"}

\* frames whose bass band is 0, 128/255, 1 and 0/0
SegmentFrames ==
    {Silence, Frame(Constant(128, 8), 8), Frame(Constant(255, 8), 8), NoBins}

NoMetrics ==
    [overall |-> Whole(0), bass |-> Whole(0), mid |-> Whole(0),
     treble |-> Whole(0), nominal |-> FALSE, adjusted |-> FALSE]

kNoMetrics ==
    [overall |-> Whole(0), bass |-> Whole(0), mid |-> Whole(0),
     treble |-> Whole(0)]

\* draws of Math.random(), in [0, 1)
MidDraw == Num(1, 2)
\* the draws of Math.random() of one spawn, each in [0, 1)
Seed(angle, radius, vx, vy, size, hue) ==
    [angle |-> angle, radius |-> radius, vx |-> vx, vy |-> vy, size |-> size,
     hue |-> hue]

MidSeed == Seed(Num(1, 2), Num(1, 2), Num(3, 4), Num(1, 4), Num(1, 2), Num(1, 2))

\* a position after one step: angle in turns, in (-1/2, 1/2], and radius
Position(angle, radius) == [angle |-> angle, radius |-> radius]

\* a position inside every wedge of 12 to 32 segments, near the centre
Inside == Position(Num(1, 64), Whole(10))

\* a position inside the wedge, beyond 0.6 * maxRadius of every surface used
Outside == Position(Num(1, 64), Whole(2000))

\* a position inside the wedge, between 0.5 and 0.6 of the maxRadius (800) of
\* the 1000 x 1000 surface
NearEdge == Position(Num(1, 64), Whole(450))

\* positions near the centre at angles inside every wedge (1/64 turn), between
\* the wedges of 32 and of 12 segments (1/20), on the boundary of the wedge of
\* 12 segments (1/12), beyond twice that wedge (1/4), and below the x axis
\* (-1/64)
WedgeMoves ==
    {Position(a, Whole(10)) :
        a \in {Num(1, 64), Num(1, 20), Num(1, 12), Num(1, 4), Num(-1, 64)}}

\* spawns moving up and right, and down and left
WedgeSeeds ==
    {MidSeed,
     Seed(Num(1, 4), Num(1, 50), Num(1, 4), Whole(0), Whole(0), Whole(0))}

----------------------------------------------------------------------------
(* Actions                                                                 *)

\* new ChemicalOrbitalsRenderer(canvas) on a canvas of the given size whose
\* getContext('2d') returns the given context ("2d", or "null")
Construct(width, height, dpr, context, u) ==
    /\ orbitals' = NewOrbitals(width, height, dpr, context, u)
    /\ devicePixelRatio' = dpr
    /\ metrics' = NoMetrics
    /\ orbitalLog' = <<>>
    /\ lastCall' = "construct"
    /\ thrown' = "none"
    /\ repeated' = FALSE
    /\ UNCHANGED <<flow, weak, kaleido, feed, kmetrics, band, bandResult, particle, drawLog,
                   page>>

\* renderer.resize(width, height)
Resize(width, height, dpr, u) ==
    /\ orbitals' = ResizeOrbitals(orbitals, width, height, dpr, u)
    /\ devicePixelRatio' = dpr
    /\ lastCall' = "resize"
    /\ thrown' = "none"
    /\ repeated' = /\ lastCall = "resize"
                   /\ orbitals.canvasWidth = width
                   /\ orbitals.canvasHeight = height
                   /\ devicePixelRatio = dpr
    /\ UNCHANGED <<flow, weak, kaleido, feed, metrics, kmetrics, band, bandResult, particle,
                   drawLog, orbitalLog, page>>

\* renderer.render(dataArray, bufferLength); r is what the one call leaves
Render(dataArray, bufferLength) ==
    \E r \in {RenderOrbitals(orbitals, dataArray, bufferLength)} :
        /\ orbitals' = r.o
        /\ metrics' = r.m
        /\ orbitalLog' = r.log
        /\ feed' = Frame(dataArray, bufferLength)
        /\ lastCall' = "render"
        /\ thrown' = r.thrown
        /\ repeated' = FALSE
        /\ UNCHANGED <<flow, weak, kaleido, devicePixelRatio, kmetrics, band, bandResult,
                       particle, drawLog, page>>

\* new KaleidoscopeRenderer(canvas)
kConstruct(width, height, dpr, context, seed) ==
    /\ kaleido' = NewKaleidoscope(width, height, dpr, context)
    /\ particle' = NewParticle(kaleido', seed)
    /\ devicePixelRatio' = dpr
    /\ kmetrics' = kNoMetrics
    /\ drawLog' = <<>>
    /\ lastCall' = "kconstruct"
    /\ thrown' = "none"
    /\ repeated' = FALSE
    /\ UNCHANGED <<flow, weak, orbitals, feed, metrics, band, bandResult, orbitalLog, page>>

\* kaleidoscope.resize(width, height)
kResize(width, height, dpr, seed) ==
    /\ kaleido' = ResizeKaleidoscope(kaleido, width, height, dpr)
    /\ particle' = NewParticle(kaleido', seed)
    /\ devicePixelRatio' = dpr
    /\ lastCall' = "kresize"
    /\ thrown' = "none"
    /\ repeated' = /\ lastCall = "kresize"
                   /\ kaleido.canvasWidth = width
                   /\ kaleido.canvasHeight = height
                   /\ devicePixelRatio = dpr
    /\ UNCHANGED <<flow, weak, orbitals, feed, metrics, kmetrics, band, bandResult, drawLog, orbitalLog,
                   page>>

\* kaleidoscope.render(dataArray, bufferLength); r is what the one call leaves
kRender(dataArray, bufferLength, moved, seed) ==
    \E r \in {RenderKaleidoscope(kaleido, particle, dataArray, bufferLength,
                                 moved, seed)} :
        /\ kaleido' = r.k
        /\ kmetrics' = r.m
        /\ particle' = r.p
        /\ drawLog' = r.log
        /\ feed' = Frame(dataArray, bufferLength)
        /\ lastCall' = "krender"
        /\ thrown' = r.thrown
        /\ repeated' = FALSE
        /\ UNCHANGED <<flow, weak, orbitals, devicePixelRatio, metrics, band, bandResult,
                       orbitalLog, page>>

\* one evaluation of ChemicalOrbitalsRenderer.getFrequencyBandIntensity
BandIntensity ==
    /\ bandResult' =
          [by |-> "orbitals",
           value |-> getFrequencyBandIntensity(feed.dataArray, feed.bufferLength,
                                               band[1], band[2])]
    /\ lastCall' = "band"
    /\ thrown' = "none"
    /\ repeated' = FALSE
    /\ UNCHANGED <<flow, weak, orbitals, kaleido, devicePixelRatio, feed, metrics, kmetrics,
                   band, particle, drawLog, orbitalLog, page>>

\* one evaluation of KaleidoscopeRenderer.getFrequencyBandIntensity
kBandIntensity ==
    /\ bandResult' =
          [by |-> "kaleidoscope",
           value |-> kGetFrequencyBandIntensity(feed.dataArray, feed.bufferLength,
                                                band[1], band[2])]
    /\ lastCall' = "kband"
    /\ thrown' = "none"
    /\ repeated' = FALSE
    /\ UNCHANGED <<flow, weak, orbitals, kaleido, devicePixelRatio, feed, metrics, kmetrics,
                   band, particle, drawLog, orbitalLog, page>>

\* DynamicTitle is rendered for the first time
Mount ==
    /\ ~page.mounted
    /\ page' =
         [page EXCEPT !.mounted = TRUE, !.isElectron = FALSE,
                   !.rendered = Closure([page EXCEPT !.isElectron = FALSE]),
                   !.pending = <<"detect", "title">>, !.stale = FALSE]
    /\ lastCall' = "mount"
    /\ thrown' = "none"
    /\ repeated' = FALSE
    /\ UNCHANGED <<flow, weak, orbitals, kaleido, devicePixelRatio, feed, metrics, kmetrics,
                   band, bandResult, particle, drawLog, orbitalLog>>

\* React runs the next effect the last render scheduled
Effect ==
    /\ page.pending # <<>>
    /\ page' =
         LET ran == IF Head(page.pending) = "detect" THEN DetectElectron(page)
                    ELSE UpdateTitle(page)
         IN  [ran EXCEPT !.pending = Tail(page.pending)]
    /\ lastCall' = "effect"
    /\ thrown' = "none"
    /\ repeated' = FALSE
    /\ UNCHANGED <<flow, weak, orbitals, kaleido, devicePixelRatio, feed, metrics, kmetrics,
                   band, bandResult, particle, drawLog, orbitalLog>>

\* React renders DynamicTitle again, after a state or context change and once
\* the effects of the render before have run
Rerender ==
    /\ page.mounted /\ page.stale /\ page.pending = <<>>
    /\ page' =
         [page EXCEPT !.rendered = Closure(page),
                   !.pending = IF TitleDeps(Closure(page)) # TitleDeps(page.rendered)
                               THEN <<"title">> ELSE <<>>,
                   !.stale = FALSE]
    /\ lastCall' = "rerender"
    /\ thrown' = "none"
    /\ repeated' = FALSE
    /\ UNCHANGED <<flow, weak, orbitals, kaleido, devicePixelRatio, feed, metrics, kmetrics,
                   band, bandResult, particle, drawLog, orbitalLog>>

\* the player starts, pauses, changes or drops its track
PlayerChange(track, playing) ==
    /\ <<track, playing>> # <<page.currentTrack, page.isPlaying>>
    /\ page' =
         [page EXCEPT !.currentTrack = track, !.isPlaying = playing,
                   !.stale = page.mounted]
    /\ lastCall' = "player"
    /\ thrown' = "none"
    /\ repeated' = FALSE
    /\ UNCHANGED <<flow, weak, orbitals, kaleido, devicePixelRatio, feed, metrics, kmetrics,
                   band, bandResult, particle, drawLog, orbitalLog>>

----------------------------------------------------------------------------
(* Specifications                                                          *)

\* both renderers constructed on one canvas, before any render() call
Renderers(s, dpr, f, b) ==
    /\ orbitals = NewOrbitals(s.width, s.height, dpr, "2d", MidDraw)
    /\ kaleido = NewKaleidoscope(s.width, s.height, dpr, "2d")
    /\ devicePixelRatio = dpr
    /\ feed = f
    /\ metrics = NoMetrics
    /\ kmetrics = kNoMetrics
    /\ band = b
    /\ bandResult = [by |-> "none", value |-> Whole(0)]
    /\ lastCall = "construct"
    /\ particle = NewParticle(kaleido, MidSeed)
    /\ drawLog = <<>>
    /\ orbitalLog = <<>>
    /\ thrown = "none"
    /\ repeated = FALSE
    /\ flow = NoFlow([e \in Elements |-> TRUE])
    /\ weak = NoWeak

\* the renderers constructed, the DynamicTitle component not yet mounted
Constructed(s, dpr, f, b) ==
    /\ Renderers(s, dpr, f, b)
    /\ page = Unmounted(FALSE)

----------------------------------------------------------------------------
(* Actions of FlowFieldBackground                                          *)

\* what every step of the components leaves as it is
RenderersUnchanged ==
    /\ thrown' = "none"
    /\ repeated' = FALSE
    /\ UNCHANGED <<orbitals, kaleido, devicePixelRatio, feed, metrics, kmetrics,
                   band, bandResult, particle, drawLog, orbitalLog, page>>

\* React mounts the component with an audioElement prop
fMount(audioElement, connection) ==
    /\ ~flow.mounted
    /\ flow' =
         LET fresh == [flow EXCEPT !.mounted = TRUE,
                                !.audioElement = audioElement,
                                !.isPlaying = FALSE,
                                !.rendered = [audioElement |-> audioElement,
                                              isPlaying |-> FALSE],
                                !.analyserRef = "none",
                                !.connectedAudioElementRef = "none",
                                !.animationFrameRef = 0,
                                !.commits = @ + 1]
             listened == EventsEffect(fresh)
             connected == AudioEffect(listened, connection)
             drawn == [connected EXCEPT !.rendererRef = TRUE,
                                        !.rendersInFrame = 0]
         IN  LoopEffect(drawn)
    /\ lastCall' = "fmount"
    /\ RenderersUnchanged
    /\ UNCHANGED weak

\* the parent passes another audioElement
fSetElement(audioElement) ==
    /\ flow.mounted
    /\ audioElement # flow.audioElement
    /\ flow' = [flow EXCEPT !.audioElement = audioElement]
    /\ lastCall' = "fprops"
    /\ RenderersUnchanged
    /\ UNCHANGED weak

\* React renders the component again, after its state or its prop changed,
\* and runs the effects of that render
fCommit(connection) ==
    /\ flow.mounted
    /\ \/ flow.audioElement # flow.rendered.audioElement
       \/ flow.isPlaying # flow.rendered.isPlaying
    /\ flow' =
         LET elementChanged == flow.audioElement # flow.rendered.audioElement
             playingChanged == flow.isPlaying # flow.rendered.isPlaying
             unlistened == IF elementChanged THEN EventsCleanup(flow) ELSE flow
             disconnected == IF elementChanged THEN AudioCleanup(unlistened)
                             ELSE unlistened
             stopped == IF playingChanged THEN LoopCleanup(disconnected)
                        ELSE disconnected
             rendered == [stopped EXCEPT !.rendered = [audioElement |-> flow.audioElement,
                                                       isPlaying |-> flow.isPlaying],
                                         !.commits = @ + 1]
             listened == IF elementChanged THEN EventsEffect(rendered) ELSE rendered
             connected == IF elementChanged THEN AudioEffect(listened, connection)
                          ELSE listened
         IN  IF playingChanged THEN LoopEffect(connected) ELSE connected
    /\ lastCall' = "fcommit"
    /\ RenderersUnchanged
    /\ UNCHANGED weak

\* React unmounts the component
fUnmount ==
    /\ flow.mounted
    /\ flow' =
         LET cleaned == LoopCleanup(
                            [AudioCleanup(EventsCleanup(flow))
                                EXCEPT !.rendererRef = FALSE])
         IN  [cleaned EXCEPT !.mounted = FALSE, !.audioElement = "none",
                             !.isPlaying = FALSE,
                             !.rendered = [audioElement |-> "none",
                                           isPlaying |-> FALSE],
                             !.analyserRef = "none",
                             !.connectedAudioElementRef = "none",
                             !.animationFrameRef = 0,
                             !.cleanupAudio = FALSE, !.cleanupLoop = FALSE]
    /\ lastCall' = "funmount"
    /\ RenderersUnchanged
    /\ UNCHANGED weak

\* an audio element starts or pauses
fPlayPause(element, paused) ==
    /\ flow.paused[element] # paused
    /\ flow' =
         [flow EXCEPT !.paused[element] = paused,
                   !.isPlaying = IF flow.listening = element THEN ~paused ELSE @]
    /\ lastCall' = IF paused THEN "pause" ELSE "play"
    /\ RenderersUnchanged
    /\ UNCHANGED weak

\* the browser runs the frame callbacks
fFrame ==
    /\ flow' =
         RunCallbacks([flow EXCEPT !.frames = @ + 1, !.rendersInFrame = 0],
                      flow.requested)
    /\ lastCall' = "frame"
    /\ RenderersUnchanged
    /\ UNCHANGED weak

\* React mounts the WeakMap version with an audioElement prop
wMount(audioElement, created) ==
    /\ ~weak.mounted
    /\ weak' =
         WeakEffect([weak EXCEPT !.mounted = TRUE, !.audioElement = audioElement,
                              !.analyserRef = "none", !.sourceNodeRef = "none",
                              !.connectedAudioElementRef = "none",
                              !.cleanup = FALSE, !.commits = @ + 1],
                    audioElement, created)
    /\ lastCall' = "wmount"
    /\ RenderersUnchanged
    /\ UNCHANGED flow

\* the parent passes another audioElement, and React renders again
wCommit(audioElement, created) ==
    /\ weak.mounted
    /\ audioElement # weak.audioElement
    /\ weak' =
         WeakEffect([WeakCleanup(weak) EXCEPT !.audioElement = audioElement,
                                           !.commits = @ + 1],
                    audioElement, created)
    /\ lastCall' = "wcommit"
    /\ RenderersUnchanged
    /\ UNCHANGED flow

\* React unmounts the WeakMap version
wUnmount ==
    /\ weak.mounted
    /\ weak' =
         [WeakCleanup(weak) EXCEPT !.mounted = FALSE, !.audioElement = "none",
                                !.analyserRef = "none", !.sourceNodeRef = "none",
                                !.connectedAudioElementRef = "none",
                                !.reused = FALSE]
    /\ lastCall' = "wunmount"
    /\ RenderersUnchanged
    /\ UNCHANGED flow

\* something closes the audio context stored for an element
wClose(element) ==
    /\ weak.state[element] = "running"
    /\ weak' =
         [weak EXCEPT !.state[element] = "closed", !.closed[element] = TRUE]
    /\ lastCall' = "wclose"
    /\ RenderersUnchanged
    /\ UNCHANGED flow

----------------------------------------------------------------------------
(* Specifications                                                          *)

\* ChemicalOrbitalsRenderer driven with freely changing buffers
Next ==
    /\ orbitals.time < MaxTime
    /\ \E f \in AudioFrames : Render(f.dataArray, f.bufferLength)

Spec ==
    /\ Constructed(Surface(1000, 1000), Whole(1), NoBins, BassBand)
    /\ [][Next]_vars

\* ChemicalOrbitalsRenderer fed one unchanging non-zero frame
NextConstAudio ==
    /\ orbitals.time < MaxCycleTicks
    /\ Render(feed.dataArray, feed.bufferLength)

SpecConstAudio ==
    /\ \E s \in SmallSurfaces, f \in NonZeroFrames :
           Constructed(s, Whole(1), f, BassBand)
    /\ [][NextConstAudio]_vars

\* ChemicalOrbitalsRenderer over full cycles: resizes at any time, the buffer
\* switched only when a level has just begun
NextCycle ==
    \/ /\ orbitals.time < MaxCycleTicks
       /\ \E f \in AudioFrames :
             /\ f = feed \/ orbitals.energyLevelTimer = 0
             /\ Render(f.dataArray, f.bufferLength)
    \/ \E s \in SmallSurfaces : Resize(s.width, s.height, Whole(1), MidDraw)

SpecCycle ==
    /\ \E s \in SmallSurfaces, f \in AudioFrames :
           Constructed(s, Whole(1), f, BassBand)
    /\ [][NextCycle]_vars

\* both renderers rendering the same frame
NextFrame ==
    \/ /\ orbitals.time < MaxFrameTicks
       /\ Render(feed.dataArray, feed.bufferLength)
    \/ /\ kaleido.time < MaxFrameTicks
       /\ kRender(feed.dataArray, feed.bufferLength, Inside, MidSeed)

SpecFrame ==
    /\ \E f \in BandFrames : Constructed(Surface(1000, 1000), Whole(1), f, BassBand)
    /\ [][NextFrame]_vars

\* the band-intensity function of either renderer on every frame and band
NextBand ==
    \/ BandIntensity
    \/ kBandIntensity

SpecBand ==
    /\ \E f \in BandFrames,
           b \in {BassBand, MidBand, TrebleBand, <<Whole(0), Whole(1)>>,
                  <<Num(1, 2), Num(1, 2)>>} :
           Constructed(Surface(1000, 1000), Whole(1), f, b)
    /\ [][NextBand]_vars

\* construction and resize of both renderers on every surface and density
NextQuality ==
    \/ \E s \in Surfaces, dpr \in DevicePixelRatios :
           Construct(s.width, s.height, dpr, "2d", MidDraw)
    \/ \E s \in Surfaces, dpr \in DevicePixelRatios :
           Resize(s.width, s.height, dpr, MidDraw)
    \/ \E s \in Surfaces, dpr \in DevicePixelRatios :
           kConstruct(s.width, s.height, dpr, "2d", MidSeed)
    \/ \E s \in Surfaces, dpr \in DevicePixelRatios :
           kResize(s.width, s.height, dpr, MidSeed)

SpecQuality ==
    /\ \E s \in Surfaces, dpr \in DevicePixelRatios :
           Constructed(s, dpr, NoBins, BassBand)
    /\ [][NextQuality]_vars

\* both renderers rendered and resized in any order
NextPool ==
    \/ /\ orbitals.time < MaxPoolTicks
       /\ \E f \in PoolFrames : Render(f.dataArray, f.bufferLength)
    \/ /\ kaleido.time < MaxPoolTicks
       /\ \E f \in PoolFrames :
             kRender(f.dataArray, f.bufferLength, Inside, MidSeed)
    \/ \E s \in PoolSurfaces : Resize(s.width, s.height, Whole(1), MidDraw)
    \/ \E s \in PoolSurfaces : kResize(s.width, s.height, Whole(1), MidSeed)

SpecPool ==
    /\ \E f \in PoolFrames : Constructed(Surface(1000, 1000), Whole(1), f, BassBand)
    /\ [][NextPool]_vars

\* KaleidoscopeRenderer driven with freely changing buffers
NextSegments ==
    /\ kaleido.time < MaxSegmentTicks
    /\ \E f \in SegmentFrames :
          kRender(f.dataArray, f.bufferLength, Inside, MidSeed)

SpecSegments ==
    /\ Constructed(Surface(1000, 1000), Whole(1), Silence, BassBand)
    /\ [][NextSegments]_vars

\* both renderers constructed on surfaces with and without a 2D context, and
\* rendered
NextSetup ==
    \/ \E s \in SmallSurfaces, context \in Contexts :
           Construct(s.width, s.height, Whole(1), context, MidDraw)
    \/ \E s \in SmallSurfaces, context \in Contexts :
           kConstruct(s.width, s.height, Whole(1), context, MidSeed)
    \/ /\ orbitals.time < MaxSetupTicks
       /\ \E f \in PoolFrames : Render(f.dataArray, f.bufferLength)
    \/ /\ kaleido.time < MaxSetupTicks
       /\ \E f \in PoolFrames :
             kRender(f.dataArray, f.bufferLength, Inside, MidSeed)

SpecSetup ==
    /\ \E f \in PoolFrames : Constructed(Surface(1000, 1000), Whole(1), f, BassBand)
    /\ [][NextSetup]_vars

\* KaleidoscopeRenderer fed one unchanging frame, its particle staying near
\* the centre or, every EscapePeriod ticks, nearing the edge, leaving it or
\* being replaced by a resize
NextLife ==
    \/ /\ kaleido.time < MaxLifeTicks
       /\ \E moved \in {Inside, NearEdge, Outside} :
             /\ moved # Inside => kaleido.time % EscapePeriod = 0
             /\ kRender(feed.dataArray, feed.bufferLength, moved, MidSeed)
    \/ /\ kaleido.time % EscapePeriod = 0
       /\ particle.sinceSpawn > 0
       /\ kResize(1000, 1000, Whole(1), MidSeed)

SpecLife ==
    /\ \E f \in {Silence, Frame(Constant(255, 8), 8)} :
           Constructed(Surface(1000, 1000), Whole(1), f, BassBand)
    /\ [][NextLife]_vars

\* KaleidoscopeRenderer fed one unchanging frame of finite metrics, its
\* particle moving to any of the sampled positions
NextWedge ==
    /\ kaleido.time < MaxWedgeTicks
    /\ \E moved \in WedgeMoves \cup {Outside}, seed \in WedgeSeeds :
          kRender(feed.dataArray, feed.bufferLength, moved, seed)

SpecWedge ==
    /\ \E f \in {Silence, Frame(Constant(255, 8), 8)} :
           Constructed(Surface(1000, 1000), Whole(1), f, BassBand)
    /\ [][NextWedge]_vars

\* DynamicTitle in Electron and on the web, under a player that changes its
\* track and its playing flag at any time
NextTitle ==
    \/ Mount
    \/ Effect
    \/ Rerender
    \/ \E track \in Tracks \cup {NoTrack}, playing \in BOOLEAN :
           PlayerChange(track, playing)

SpecTitle ==
    /\ \E electron \in BOOLEAN :
           /\ Renderers(Surface(1000, 1000), Whole(1), NoBins, BassBand)
           /\ page = Unmounted(electron)
    /\ [][NextTitle]_vars

\* ChemicalOrbitalsRenderer fed one unchanging non-zero frame through all six
\* levels, its pool replaced by a resize when a level has just begun
NextElectrons ==
    \/ /\ orbitals.time < MaxCycleTicks
       /\ Render(feed.dataArray, feed.bufferLength)
    \/ /\ orbitals.energyLevelTimer = 0
       /\ lastCall # "resize"
       /\ \E u \in {Whole(0), MidDraw} : Resize(1000, 1000, Whole(1), u)

SpecElectrons ==
    /\ \E f \in NonZeroFrames : Constructed(Surface(1000, 1000), Whole(1), f, BassBand)
    /\ [][NextElectrons]_vars

\* both renderers animated for a few frames of silence or of full volume, and
\* resized at any time to either of two surfaces
MaxResizeTicks == 6

ResizeSurfaces == {Surface(1000, 1000), Surface(3840, 2160)}

NextResize ==
    \/ /\ orbitals.time < MaxResizeTicks
       /\ Render(feed.dataArray, feed.bufferLength)
    \/ /\ kaleido.time < MaxResizeTicks
       /\ kRender(feed.dataArray, feed.bufferLength, Inside, MidSeed)
    \/ \E s \in ResizeSurfaces : Resize(s.width, s.height, Whole(1), MidDraw)
    \/ \E s \in ResizeSurfaces : kResize(s.width, s.height, Whole(1), MidSeed)

SpecResize ==
    /\ \E f \in {Silence, Frame(Constant(255, 8), 8)} :
           Constructed(Surface(1000, 1000), Whole(1), f, BassBand)
    /\ [][NextResize]_vars

\* eleven frames of the kaleidoscope, then the Chemical renderer through its six
\* levels, on one surface and one buffer chosen at the start (the renderers
\* share no state, so the order between them is fixed)
MaxStackFrames == 11
MaxStackTicks == 510

NextStacks ==
    \/ /\ kaleido.time < MaxStackFrames
       /\ kRender(feed.dataArray, feed.bufferLength, Inside, MidSeed)
    \/ /\ kaleido.time >= MaxStackFrames
       /\ orbitals.time < MaxStackTicks
       /\ Render(feed.dataArray, feed.bufferLength)

SpecStacks ==
    /\ \E s \in PoolSurfaces, f \in {Silence, Frame(Constant(255, 8), 8)} :
           Constructed(s, Whole(1), f, BassBand)
    /\ [][NextStacks]_vars

\* FlowFieldBackground on the shared connection, over two audio elements:
\* mounted, given another element or none, re-rendered and unmounted, with
\* play and pause events and browser frames in any order
MaxCommits == 4
MaxFlowFrames == 2

NextFlow ==
    \/ /\ flow.commits < MaxCommits
       /\ \E e \in Elements \cup {"none"}, connection \in BOOLEAN :
             fMount(e, connection)
    \/ \E e \in Elements \cup {"none"} : fSetElement(e)
    \/ /\ flow.commits < MaxCommits
       /\ \E connection \in BOOLEAN : fCommit(connection)
    \/ fUnmount
    \/ \E e \in Elements, paused \in BOOLEAN : fPlayPause(e, paused)
    \/ /\ flow.frames < MaxFlowFrames
       /\ fFrame

SpecFlow ==
    /\ Constructed(Surface(1000, 1000), Whole(1), NoBins, BassBand)
    /\ [][NextFlow]_vars

\* FlowFieldBackground on the shared connection with one audio element whose
\* connection is always granted: play events, pause events, re-renders,
\* frames, unmounts and mounts
MaxLoopCommits == 6
MaxLoopFrames == 3

NextLoop ==
    \/ /\ flow.commits < MaxLoopCommits
       /\ fMount("a", TRUE)
    \/ /\ flow.commits < MaxLoopCommits
       /\ fCommit(TRUE)
    \/ fUnmount
    \/ \E paused \in BOOLEAN : fPlayPause("a", paused)
    \/ /\ flow.frames < MaxLoopFrames
       /\ fFrame

SpecLoop ==
    /\ Constructed(Surface(1000, 1000), Whole(1), NoBins, BassBand)
    /\ [][NextLoop]_vars

\* FlowFieldBackground on the WeakMap, over two audio elements: mounted, given
\* another element or none, unmounted, and the stored contexts closed
MaxWeakCommits == 5

NextWeak ==
    \/ /\ weak.commits < MaxWeakCommits
       /\ \E e \in Elements \cup {"none"}, created \in BOOLEAN : wMount(e, created)
    \/ /\ weak.commits < MaxWeakCommits
       /\ \E e \in Elements \cup {"none"}, created \in BOOLEAN : wCommit(e, created)
    \/ wUnmount
    \/ \E e \in Elements : wClose(e)

SpecWeak ==
    /\ Constructed(Surface(1000, 1000), Whole(1), NoBins, BassBand)
    /\ [][NextWeak]_vars

----------------------------------------------------------------------------
(* Properties of the energy-level cycle                                    *)

\* the mean of buffer[0..length) over 255, for the frame f
MeanOver255(f) ==
    Num(SumRange(f.dataArray, 0, f.bufferLength), f.bufferLength * 255)

\* the least number of ticks w with w >= 300 / (1 + 2 * overall)
Window(overall) ==
    CHOOSE w \in 1..energyLevelDuration :
        /\ w * (overall.d + 2 * overall.n) >= energyLevelDuration * overall.d
        /\ (w - 1) * (overall.d + 2 * overall.n) < energyLevelDuration * overall.d

\* C1: with one non-zero frame fed to every render() call since construction,
\* the level after t calls is ((t div w) mod 6) + 1, w being the adjusted
\* duration in whole ticks: the level goes 1,2,3,4,5,6,1,..., one step every w
\* ticks, never skipping a level and never stepping twice within a window.
C1_ConstantAudioCycles ==
    LET w == Window(MeanOver255(feed))
    IN  /\ orbitals.currentEnergyLevel
              = ((orbitals.time \div w) % MAX_ENERGY_LEVEL) + 1
        /\ orbitals.energyLevelTimer = orbitals.time % w

\* C1 witness: the cycle has wrapped from 6 back to 1
C1_Witness ==
    /\ lastCall = "render"
    /\ orbitals.currentEnergyLevel = 1
    /\ orbitals.time = 6 * Window(MeanOver255(feed))

\* the end-to-end scenario: 1000 x 1000 canvas, 1024 bins of value 128
EndToEnd ==
    /\ orbitals.canvasWidth = 1000
    /\ orbitals.canvasHeight = 1000
    /\ feed = Half128

\* C2 as stated: in the end-to-end scenario the level changes exactly once in
\* 300 render() calls, from 1 to 2 at tick 300, and the pool holds 50 electrons
\* after every call.
C2_Original ==
    (EndToEnd /\ orbitals.time <= 300) =>
        /\ orbitals.electrons = 50
        /\ orbitals.qualityScale = Whole(1)
        /\ orbitals.currentEnergyLevel = (IF orbitals.time < 300 THEN 1 ELSE 2)

\* C2 amended: in the end-to-end scenario the level changes twice in 300
\* render() calls, from 1 to 2 at tick 150 and from 2 to 3 at tick 300 (the
\* adjusted duration is 300 / (1 + 2 * 128/255) = 149.7 ticks), and the pool
\* holds 50 electrons after every call.
C2_EndToEnd ==
    (EndToEnd /\ orbitals.time <= 300) =>
        /\ orbitals.electrons = 50
        /\ orbitals.qualityScale = Whole(1)
        /\ orbitals.currentEnergyLevel =
              (IF orbitals.time < 150 THEN 1
               ELSE IF orbitals.time < 300 THEN 2 ELSE 3)

\* C2 witness: the 300th call of the end-to-end scenario has been made
C2_Witness ==
    /\ EndToEnd
    /\ lastCall = "render"
    /\ orbitals.time = 300
    /\ orbitals.currentEnergyLevel = 3
    /\ orbitals.electrons = 50

NextLevel(n) == (n % 6) + 1

\* C3: one render() call advances the level by at most one step, and the
\* nominal-duration check and the audio-adjusted check never both fire in it.
C3_SingleAdvance ==
    [][lastCall' = "render" =>
          /\ ~(metrics'.nominal /\ metrics'.adjusted)
          /\ orbitals'.currentEnergyLevel \in
                {orbitals.currentEnergyLevel,
                 NextLevel(orbitals.currentEnergyLevel)}]_vars

\* C3 witness: the nominal check fired in a call whose audio was not silent,
\* so the adjusted check ran right after it with a threshold below 300
C3_Witness ==
    /\ lastCall = "render"
    /\ metrics.nominal
    /\ Gt(metrics.overall, Whole(0))
    /\ orbitals.energyLevelTimer = 0

\* C4: currentEnergyLevel is an integer in 1..6 in every reachable state, with
\* render() and resize() interleaved.
C4_LevelInRange == orbitals.currentEnergyLevel \in 1..6

\* C4 witness: the level has wrapped from 6 to 1 in a run that was resized
C4_Witness ==
    /\ orbitals.currentEnergyLevel = 1
    /\ orbitals.time >= 600
    /\ lastCall = "resize"

\* C5: in a render() call with overall in [0,1] the level steps to (n mod 6)+1
\* and the timer is reset to 0 exactly when the incremented timer is
\* >= 300 / (1 + 2 * overall); otherwise the level stays and the timer keeps
\* its incremented value.
C5_SingleComparison ==
    [][(lastCall' = "render" /\ InUnit(metrics'.overall)) =>
          LET t == orbitals.energyLevelTimer + 1
              v == metrics'.overall
          IN  IF t * (v.d + 2 * v.n) >= 300 * v.d
              THEN /\ orbitals'.currentEnergyLevel
                        = NextLevel(orbitals.currentEnergyLevel)
                   /\ orbitals'.energyLevelTimer = 0
              ELSE /\ orbitals'.currentEnergyLevel = orbitals.currentEnergyLevel
                   /\ orbitals'.energyLevelTimer = t]_vars

\* C5 witness: a call with overall strictly between 0 and 1 changed the level
C5_Witness ==
    /\ lastCall = "render"
    /\ metrics.adjusted
    /\ Gt(metrics.overall, Whole(0))
    /\ Lt(metrics.overall, Whole(1))
    /\ orbitals.currentEnergyLevel = 3

----------------------------------------------------------------------------
(* Properties of the frequency metrics                                     *)

\* floor(length * ratio) in integer arithmetic
IndexAt(length, ratio) == (length * ratio.n) \div ratio.d

\* the sum of dataArray over a set of indices (0 past the end of the array)
RECURSIVE Total(_, _)
Total(dataArray, indices) ==
    IF indices = {} THEN 0
    ELSE LET i == CHOOSE j \in indices : TRUE
         IN  At(dataArray, i) + Total(dataArray, indices \ {i})

BandStart == IndexAt(feed.bufferLength, band[1])
BandEnd == IndexAt(feed.bufferLength, band[2])
BandCount == BandEnd - BandStart

Zero == Whole(0)
One == Whole(1)

\* C6 as stated: the band-intensity function of either renderer returns 0
\* whenever end - start <= 0, never NaN or Infinity.
C6_ZeroCountGivesZero ==
    (bandResult.by # "none" /\ BandCount <= 0) => bandResult.value = Zero

\* the frame has no bins, or all its bins are 0
Degenerate(f) ==
    \/ f.bufferLength = 0
    \/ \A i \in 1..Len(f.dataArray) : f.dataArray[i] = 0

AllZero(m) ==
    /\ m.overall = Zero
    /\ m.bass = Zero
    /\ m.mid = Zero
    /\ m.treble = Zero

\* C7 as stated: a render() call with a zero-length or an all-zero buffer yields
\* overall = bass = mid = treble = 0 in both renderers.
C7_DegenerateGivesZero ==
    /\ (lastCall = "render" /\ Degenerate(feed)) => AllZero(metrics)
    /\ (lastCall = "krender" /\ Degenerate(feed)) => AllZero(kmetrics)

\* C8: whenever count > 0, either renderer's band intensity is
\* (sum of buffer[start..end) / count) / 255 with start = floor(length*startRatio)
\* and end = floor(length*endRatio); on 100 bins the bass band is the mean of
\* bins 0..14 (7 for the buffer whose bin i holds i), all-255 gives 1 for every
\* band and all-0 gives 0.
C8_BandIsMeanOver255 ==
    (bandResult.by # "none" /\ BandCount > 0) =>
        /\ bandResult.value =
              Num(Total(feed.dataArray, BandStart..(BandEnd - 1)), BandCount * 255)
        /\ (feed = Frame(Ramp(100), 100) /\ band = BassBand)
              => bandResult.value = Num(7, 255)
        /\ feed = Full255 => bandResult.value = One
        /\ feed = Frame(Constant(0, 100), 100) => bandResult.value = Zero

\* C8 witness: the orbitals function has evaluated the bass band of the
\* 100-bin ramp (bins 0..14, mean 7)
C8_Witness ==
    /\ feed = Frame(Ramp(100), 100)
    /\ band = BassBand
    /\ bandResult.by = "orbitals"
    /\ bandResult.value = Num(7, 255)

\* both renderers have rendered the frame, whose length argument fits the buffer
BothRendered ==
    /\ orbitals.time > 0
    /\ kaleido.time > 0
    /\ feed.bufferLength <= Len(feed.dataArray)

\* C9 as stated: in every render() call of both renderers the four metrics lie
\* in [0,1], overall is the mean of buffer[0..length) over 255, and both
\* renderers compute the same overall for the same (buffer, length).
C9_FixedBandsInUnit ==
    BothRendered =>
        /\ \A m \in {metrics, kmetrics} :
              /\ InUnit(m.overall)
              /\ InUnit(m.bass)
              /\ InUnit(m.mid)
              /\ InUnit(m.treble)
        /\ metrics.overall = kmetrics.overall
        /\ feed.bufferLength > 0 => kmetrics.overall = MeanOver255(feed)

----------------------------------------------------------------------------
(* Properties of the quality scale                                         *)

\* qualityScale as a function of the area: 1 up to the threshold, then
\* min(0.7, threshold / area)
ScaleOf(area) ==
    IF area <= 2073600 THEN One
    ELSE IF 10 * 2073600 <= 7 * area THEN Num(2073600, area)
    ELSE Num(7, 10)

\* min(d, 2) * q for a density d > 0
RatioOf(d, q) ==
    IF d.n <= 2 * d.d THEN Num(d.n * q.n, d.d * q.d) ELSE Num(2 * q.n, q.d)

QualityAsSpecified(r) ==
    LET area == r.canvasWidth * r.canvasHeight
    IN  /\ r.qualityScale = ScaleOf(area)
        /\ Gt(r.qualityScale, Zero)
        /\ Geq(One, r.qualityScale)
        /\ (r.canvasWidth = 1920 /\ r.canvasHeight = 1080) => r.qualityScale = One
        /\ (r.canvasWidth = 3840 /\ r.canvasHeight = 2160)
              => r.qualityScale = Num(1, 4)

\* C10: after construct or resize, qualityScale = 1 if A <= 2,073,600 and
\* min(0.7, 2,073,600/A) otherwise, so it is in (0,1]; 1920x1080 gives 1 and
\* 3840x2160 gives 0.25; pixelRatio = min(d, 2) * qualityScale for the device
\* pixel density d the platform reports.
C10_QualityScale ==
    /\ QualityAsSpecified(orbitals)
    /\ QualityAsSpecified(kaleido)
    /\ (lastCall \in {"construct", "resize"} /\ devicePixelRatio # Zero)
          => orbitals.pixelRatio = RatioOf(devicePixelRatio, orbitals.qualityScale)
    /\ (lastCall \in {"kconstruct", "kresize"} /\ devicePixelRatio # Zero)
          => kaleido.pixelRatio = RatioOf(devicePixelRatio, kaleido.qualityScale)

\* C10 witness: a resize to 3840 x 2160 at density 3 gave scale 1/4, ratio 1/2
C10_Witness ==
    /\ lastCall = "resize"
    /\ orbitals.canvasWidth = 3840
    /\ orbitals.canvasHeight = 2160
    /\ devicePixelRatio = Whole(3)
    /\ orbitals.qualityScale = Num(1, 4)
    /\ orbitals.pixelRatio = Num(1, 2)

----------------------------------------------------------------------------
(* Properties of the pools                                                 *)

\* the quality state of a renderer: scale, pixel ratio and pool length
QualityState ==
    <<orbitals.qualityScale, orbitals.pixelRatio, orbitals.electrons,
      kaleido.qualityScale, kaleido.pixelRatio, kaleido.particles>>

\* C11: render() of either renderer leaves qualityScale, pixelRatio and the pool
\* length of both renderers as they were; they change only in a constructor or
\* in resize().
C11_RenderKeepsQuality ==
    [][/\ lastCall' \in {"render", "krender"} => QualityState' = QualityState
       /\ QualityState' # QualityState =>
              lastCall' \in {"construct", "resize", "kconstruct", "kresize"}]_vars

\* a render() call on a canvas resized to 3840 x 2160, its pool still 25 long
C11_Witness ==
    /\ lastCall = "krender"
    /\ kaleido.canvasWidth = 3840
    /\ kaleido.particles = 25
    /\ orbitals.time > 0
    /\ orbitals.canvasWidth = 1921
    /\ orbitals.electrons = 35

\* Math.floor(count * qualityScale), by integer division
Scaled(count, qualityScale) == (count * qualityScale.n) \div qualityScale.d

\* C12: after any interleaving of resize() and render() the electron pool is
\* floor(50 * qualityScale) long and the particle pool floor(100 * qualityScale)
\* long, and no call raised an error.
C12_PoolLengths ==
    /\ orbitals.electrons = Scaled(50, orbitals.qualityScale)
    /\ kaleido.particles = Scaled(100, kaleido.qualityScale)
    /\ thrown = "none"

\* render() straight after the second of two resizes
C12_Witness ==
    /\ lastCall = "krender"
    /\ kaleido.time = 1
    /\ kaleido.canvasWidth = 1921
    /\ kaleido.particles = 70
    /\ orbitals.canvasWidth = 3840
    /\ orbitals.electrons = 12

----------------------------------------------------------------------------
(* Properties of resize                                                    *)

\* what resize() computes, for a ChemicalOrbitalsRenderer
Derived(o) ==
    <<o.qualityScale, o.pixelRatio, o.centerX, o.centerY, o.maxRadius,
      o.canvasWidth, o.canvasHeight, o.electrons>>

\* what resize() computes, for a KaleidoscopeRenderer
kDerived(k) ==
    <<k.qualityScale, k.pixelRatio, k.centerX, k.centerY, k.maxRadius,
      k.canvasWidth, k.canvasHeight, k.offscreenWidth, k.offscreenHeight,
      k.particles>>

\* C18: a resize(w, h) that repeats the resize(w, h) before it leaves
\* qualityScale, pixelRatio, centerX, centerY, maxRadius, the canvas size and
\* the pool length of both renderers as the first call left them.
C18_ResizeIdempotent ==
    [][repeated' => /\ Derived(orbitals') = Derived(orbitals)
                    /\ kDerived(kaleido') = kDerived(kaleido)]_vars

\* a second resize(3840, 2160) of the KaleidoscopeRenderer at density 3
C18_Witness ==
    /\ repeated
    /\ lastCall = "kresize"
    /\ kaleido.canvasWidth = 3840
    /\ devicePixelRatio = Whole(3)
    /\ kaleido.particles = 25
    /\ kaleido.pixelRatio = Num(1, 2)

\* C19: a resized renderer holds the qualityScale, pixelRatio, centerX, centerY,
\* maxRadius and pool length of a renderer constructed on a surface of the same
\* size at the same device pixel density.
C19_ResizeAsConstructed ==
    /\ lastCall = "resize" =>
          Derived(orbitals) =
              Derived(NewOrbitals(orbitals.canvasWidth, orbitals.canvasHeight,
                                  devicePixelRatio, "2d", MidDraw))
    /\ lastCall = "kresize" =>
          kDerived(kaleido) =
              kDerived(NewKaleidoscope(kaleido.canvasWidth, kaleido.canvasHeight,
                                       devicePixelRatio, "2d"))

\* a ChemicalOrbitalsRenderer resized to 2000 x 1500 at density 3: the capped
\* scale 0.6912 and the capped ratio 2 * 0.6912
C19_Witness ==
    /\ lastCall = "resize"
    /\ orbitals.canvasWidth = 2000
    /\ devicePixelRatio = Whole(3)
    /\ orbitals.qualityScale = Num(2073600, 3000000)
    /\ orbitals.pixelRatio = Num(2 * 2073600, 3000000)
    /\ orbitals.electrons = 34

----------------------------------------------------------------------------
(* Properties of the kaleidoscope frame                                    *)

\* Math.floor(12 + 20 * bass) for a finite bass, by integer division
TargetSegments(bass) == 12 + ((20 * bass.n) \div bass.d)

\* C15: segments is 12 before the first render(); a render() changes it only
\* when the tick counter it has just advanced is a multiple of 5, and then to
\* floor(12 + 20 * bass); on such a tick with a finite bass it holds that value
\* afterwards.
C15_SegmentsEveryFifthTick ==
    /\ [](kaleido.time = 0 => kaleido.segments = 12)
    /\ [][lastCall' = "krender" =>
            /\ kaleido'.segments # kaleido.segments =>
                  /\ kaleido'.time % 5 = 0
                  /\ IsNum(kmetrics'.bass)
                  /\ kaleido'.segments = TargetSegments(kmetrics'.bass)
            /\ kaleido'.time % 5 = 0 /\ IsNum(kmetrics'.bass) =>
                  kaleido'.segments = TargetSegments(kmetrics'.bass)]_vars

\* segments retargeted to 22 at the tenth tick, by a bass of 128/255
C15_Witness ==
    /\ lastCall = "krender"
    /\ kaleido.time = 10
    /\ kmetrics.bass = Num(128, 255)
    /\ kaleido.segments = 22

\* the positions in the log of the calls of one method on one context
Calls(on, method) ==
    {i \in DOMAIN drawLog : drawLog[i].on = on /\ drawLog[i].op = method}

\* the positions in the log of every call on one context
CallsOn(on) == {i \in DOMAIN drawLog : drawLog[i].on = on}

\* the position of the j-th (j from 0) of the calls at the positions `calls`
BlitAt(calls, j) ==
    CHOOSE b \in calls : Cardinality({x \in calls : x < b}) = j

\* the transform under which the blit at position b is made: the rotation, and
\* whether the y axis is mirrored
TransformAt(b) ==
    IF drawLog[b - 1].op = "scale"
    THEN [rotation |-> drawLog[b - 2], mirrored |-> drawLog[b - 1].arg = Whole(-1)]
    ELSE [rotation |-> drawLog[b - 1], mirrored |-> FALSE]

\* C16: a render() call that returns has made, on the destination, first one
\* fill of alpha at most 0.075 and no clearRect, then exactly `segments` blits,
\* blit i rotated by i * wedgeAngle and mirrored exactly when i is odd; every
\* call on the offscreen surface, the first of them its clearRect, precedes the
\* first blit, and the single particle update follows the last blit.
C16_FrameOrder ==
    lastCall = "krender" /\ thrown = "none" =>
        LET blits == Calls("ctx", "drawImage")
            offscreen == CallsOn("offscreenCtx")
            blit == [j \in 0..(kaleido.segments - 1) |-> BlitAt(blits, j)]
            firstOffscreen == BlitAt(offscreen, 0)
        IN  /\ drawLog[1].on = "ctx" /\ drawLog[1].op = "fillRect"
            /\ Gt(drawLog[1].arg, Whole(0))
            /\ Geq(Num(75, 1000), drawLog[1].arg)
            /\ Calls("ctx", "fillRect") = {1}
            /\ Calls("ctx", "clearRect") = {}
            /\ Cardinality(blits) = kaleido.segments
            /\ \A j \in 0..(kaleido.segments - 1) :
                  LET t == TransformAt(blit[j])
                  IN  /\ t.rotation.on = "ctx" /\ t.rotation.op = "rotate"
                      /\ t.rotation.arg = Num(j, kaleido.segments)
                      /\ t.mirrored <=> (j % 2 = 1)
            /\ Calls("ctx", "rotate") =
                  {blit[j] - (IF j % 2 = 0 THEN 1 ELSE 2) :
                      j \in 0..(kaleido.segments - 1)}
            /\ offscreen # {}
            /\ \A i \in offscreen :
                  /\ i < blit[0]
                  /\ i > 1
                  /\ drawLog[i].op = "clearRect" <=> i = firstOffscreen
            /\ Calls("offscreenCtx", "clip") # {}
            /\ Calls("particles", "updateParticles") = {Len(drawLog)}

\* a frame of 32 segments: 32 blits, 16 of them mirrored
C16_Witness ==
    /\ lastCall = "krender"
    /\ kaleido.segments = 32
    /\ Cardinality(Calls("ctx", "drawImage")) = 32
    /\ Cardinality(Calls("ctx", "scale")) = 16

----------------------------------------------------------------------------
(* Properties of construction                                              *)

\* C17: a constructor given a surface without a 2D context raises a SetupError
\* and returns no renderer: no renderer holds a missing context, and no
\* render() call raises the error in its place.
C17_SetupErrorAtConstruction ==
    /\ orbitals.ctx # "null"
    /\ kaleido.ctx # "null"
    /\ lastCall \in {"render", "krender"} => thrown = "none"

----------------------------------------------------------------------------
(* Properties of the particles                                             *)

\* C13: a render() call either respawns the particle, its life 1 again, or
\* leaves its life smaller by exactly 0.005; a particle is never updated 200
\* times since it was spawned without being respawned.
C13_LifeDecays ==
    [][lastCall' = "krender" /\ thrown' = "none" =>
          IF particle'.respawned
          THEN particle'.life = Whole(1) /\ particle'.sinceSpawn = 0
          ELSE /\ particle'.life = Add(particle.life, Num(-5, 1000))
               /\ Lt(particle'.life, particle.life)
               /\ particle'.sinceSpawn = particle.sinceSpawn + 1
               /\ particle'.sinceSpawn < 200]_vars

\* the particle of the constructor, respawned by the 200th render() call
\* because its life had run out
C13_Witness ==
    /\ lastCall = "krender"
    /\ kaleido.time = 200
    /\ particle.respawned
    /\ particle.expired
    /\ particle.life = Whole(1)

\* an angle in turns, brought into [0, 1)
Turn(angle) == Num(angle.n % angle.d, angle.d)

\* the polar angle lies in [0, wedgeAngle), wedgeAngle = 1 / segments turns
InWedge(angle, segments) ==
    /\ IsNum(angle)
    /\ Lt(Turn(angle), Num(1, segments))

\* C14: after every updateParticles step the particle's polar angle lies in
\* [0, wedgeAngle), wedgeAngle = 2 * pi / segments.
C14_AngleInWedge ==
    lastCall = "krender" /\ thrown = "none" =>
        InWedge(particle.angle, kaleido.segments)

----------------------------------------------------------------------------
(* Properties of DynamicTitle                                              *)

\* the component is mounted and nothing is left to render or to run
Settled == page.mounted /\ page.pending = <<>> /\ ~page.stale

C21_LifeInUnit ==
    /\ IsNum(particle.life)
    /\ Gt(particle.life, Whole(0))
    /\ Geq(Whole(1), particle.life)
    /\ particle.expired => particle.respawned /\ particle.life = Whole(1)

\* the last state of a life: 0.005 left after 199 updates
C21_Witness ==
    /\ lastCall = "krender"
    /\ particle.sinceSpawn = 199
    /\ particle.life = Num(5, 1000)

\* a value in the half-open interval [low, high)
Within(x, low, high) == Geq(x, Whole(low)) /\ Lt(x, Whole(high))

\* C22: an update respawns the particle exactly when its decayed life is at
\* most 0 or its radial distance exceeds 0.6 * maxRadius; the respawned
\* particle has its angle in [0, wedgeAngle), its radius in [0, 50), vx and vy
\* in [-1, 1], life 1, a hue in [0, 360) and size 5 + random * 15 + 10 * bass;
\* a particle that is not respawned keeps its hue and its size.
C22_RespawnReseeds ==
    [][lastCall' = "krender" /\ thrown' = "none" =>
          LET due ==
                  \/ Geq(Whole(0), Add(particle.life, Num(-5, 1000)))
                  \/ Gt(particle'.distance,
                        Mul(Num(6, 10), kaleido'.maxRadius))
          IN  /\ particle'.respawned <=> due
              /\ particle'.respawned =>
                    /\ InWedge(particle'.angle, kaleido'.segments)
                    /\ Within(particle'.radius, 0, 50)
                    /\ Geq(particle'.vx, Whole(-1)) /\ Geq(Whole(1), particle'.vx)
                    /\ Geq(particle'.vy, Whole(-1)) /\ Geq(Whole(1), particle'.vy)
                    /\ particle'.life = Whole(1)
                    /\ Within(particle'.hue, 0, 360)
                    /\ Within(Add(particle'.size,
                                  Mul(Whole(-10), kmetrics'.bass)), 5, 20)
              /\ ~particle'.respawned =>
                    /\ particle'.hue = particle.hue
                    /\ particle'.size = particle.size]_vars

\* a particle that neared the edge without being respawned, with the size a
\* respawn under full bass gave it
C22_Witness ==
    /\ lastCall = "krender"
    /\ ~particle.respawned
    /\ particle.distance = Whole(450)
    /\ particle.size = Num(45, 2)
    /\ kaleido.time > 100

----------------------------------------------------------------------------
(* Properties of the electrons                                             *)

\* speed * (1 + 2 * overall + bass), from the locals of the last render()
EffectiveSpeed ==
    Mul(orbitals.electron.speed,
        Add(Add(Whole(1), Mul(Whole(2), metrics.overall)), metrics.bass))

\* the angle increment of the last render(), at the level it drew
AngleIncrement ==
    Div(EffectiveSpeed,
        Whole(orbitals.currentEnergyLevel * orbitals.currentEnergyLevel))

C25_SegmentsInRange ==
    /\ kaleido.segments \in 12..32
    /\ lastCall = "krender" /\ thrown = "none" =>
          Cardinality(Calls("ctx", "drawImage")) = kaleido.segments

\* a zero-length buffer on a retargeting tick, segments staying at 32
C25_Witness ==
    /\ lastCall = "krender"
    /\ kaleido.time = 10
    /\ IsNaN(kmetrics.bass)
    /\ kaleido.segments = 32

----------------------------------------------------------------------------
(* Properties of resize() on the animation state                            *)

\* the animation state of the Chemical renderer
Animation(o) == <<o.currentEnergyLevel, o.energyLevelTimer, o.time>>

\* the animation state of the Kaleidoscope renderer
kAnimation(k) == <<k.segments, k.time, k.hueOffset>>

\* C27: resize() leaves currentEnergyLevel, energyLevelTimer and time of the
\* Chemical renderer as they were, and segments, time and hueOffset of the
\* Kaleidoscope renderer as they were; the particles it creates are seeded
\* inside the wedge of the current segments value.
C27_ResizeKeepsAnimation ==
    [][/\ lastCall' = "resize" =>
             /\ Animation(orbitals') = Animation(orbitals)
             /\ orbitals'.ctx = orbitals.ctx
       /\ lastCall' = "kresize" =>
             /\ kAnimation(kaleido') = kAnimation(kaleido)
             /\ kaleido'.ctx = kaleido.ctx
             /\ InWedge(particle'.angle, kaleido.segments)]_vars

\* both renderers resized to another surface in mid-animation, the
\* kaleidoscope at 32 segments
C27_Witness ==
    /\ lastCall = "kresize"
    /\ kaleido.segments = 32
    /\ kaleido.time = 6
    /\ kaleido.canvasWidth = 3840
    /\ particle.angle = Num(1, 64)
    /\ orbitals.canvasWidth = 3840
    /\ orbitals.energyLevelTimer = 4
    /\ orbitals.time = 4

----------------------------------------------------------------------------
(* Properties of the transform stacks                                      *)

\* what the calls lo..hi of a log do to the stack of one context: the depth
\* they add, and the lowest depth they pass through, both counted from the
\* depth before them
RECURSIVE Span(_, _, _, _)
Span(log, on, lo, hi) ==
    IF lo > hi THEN [net |-> 0, low |-> 0]
    ELSE IF lo = hi
    THEN LET d == IF log[lo].on # on THEN 0
                  ELSE IF log[lo].op = "save" THEN 1
                  ELSE IF log[lo].op = "restore" THEN -1
                  ELSE 0
         IN  [net |-> d, low |-> IF d < 0 THEN d ELSE 0]
    ELSE LET mid == (lo + hi) \div 2
             a == Span(log, on, lo, mid)
             b == Span(log, on, mid + 1, hi)
         IN  [net |-> a.net + b.net,
              low |-> IF a.net + b.low < a.low THEN a.net + b.low ELSE a.low]

\* the calls of a log leave the stack of one context where it was, and no
\* restore among them lacks an earlier save
Balanced(log, on) ==
    LET s == Span(log, on, 1, Len(log))
    IN  s.net = 0 /\ s.low >= 0

\* the number of calls of one method on one context in a log
Count(log, on, method) ==
    Cardinality({i \in DOMAIN log : log[i].on = on /\ log[i].op = method})

\* the methods called on the context of the Chemical renderer, as calls
OnCtx(methods) == [i \in DOMAIN methods |-> Op("ctx", methods[i], Whole(0))]

----------------------------------------------------------------------------
(* Properties of FlowFieldBackground                                       *)

\* C24: while the audio context stored for an element has not been closed,
\* createMediaElementSource has been invoked at most once for that element,
\* and an effect that finds the element in the map with a context that is not
\* closed takes the stored source node, context and analyser and invokes
\* nothing.
C24_ConnectedOnce ==
    /\ [](\A e \in Elements : ~weak.closed[e] => weak.sourceCalls[e] <= 1)
    /\ [][\A e \in Elements :
            (/\ weak'.commits > weak.commits
             /\ weak'.audioElement = e
             /\ weak.connectedAudioElements[e] = "stored"
             /\ weak.state[e] # "closed") =>
                /\ weak'.reused
                /\ weak'.sourceNodeRef = e /\ weak'.analyserRef = e
                /\ weak'.connectedAudioElementRef = e
                /\ weak'.sourceCalls = weak.sourceCalls
                /\ weak'.connectedAudioElements = weak.connectedAudioElements]_vars

\* a remount on an element connected two mounts earlier, both elements
\* connected once
C24_Witness ==
    /\ weak.mounted /\ weak.reused
    /\ weak.audioElement = "a"
    /\ weak.commits >= 3
    /\ weak.sourceCalls = [e \in Elements |-> 1]
    /\ \A e \in Elements : ~weak.closed[e]

\* C28: at most one frame callback is requested at any time, render() is
\* called at most once per frame, and once a pause or an unmount has been
\* processed no callback is left to call render().
C28_OneLoop ==
    /\ Cardinality(flow.requested) <= 1
    /\ flow.rendersInFrame <= 1
    /\ (~flow.mounted \/ (~flow.isPlaying /\ ~flow.rendered.isPlaying)) =>
          flow.requested = {}

\* C29: once React has rendered the component with its current prop and state,
\* playing audio with an analyser and a renderer means that the loop is
\* running and that it reads the analyser of the connected audio element.
C29_LoopFollowsAudio ==
    (/\ flow.mounted
     /\ flow.rendered = [audioElement |-> flow.audioElement,
                         isPlaying |-> flow.isPlaying]
     /\ flow.isPlaying
     /\ flow.analyserRef # "none"
     /\ flow.rendererRef) =>
        /\ flow.requested # {}
        /\ \A c \in flow.requested : c.analyser = flow.analyserRef

\* C30: releaseAudioConnection has been called once for every connection the
\* component was granted and does not hold any more, and every call is for the
\* element whose connection the component holds.
C30_ReleaseOnce ==
    /\ [](\A e \in Elements :
            flow.acquired[e] - flow.released[e]
                = IF flow.mounted /\ flow.connectedAudioElementRef = e
                  THEN 1 ELSE 0)
    /\ [][\A e \in Elements :
            flow'.released[e] # flow.released[e] =>
                /\ flow'.released[e] = flow.released[e] + 1
                /\ flow.connectedAudioElementRef = e
                /\ flow.acquired[e] - flow.released[e] = 1]_vars

\* the element changed from a to none and to b and the component unmounted:
\* each connection released once, none held
C30_Witness ==
    /\ ~flow.mounted
    /\ flow.acquired = [e \in Elements |-> 1]
    /\ flow.released = [e \in Elements |-> 1]
    /\ flow.commits = 3

====
